---- MODULE Spec2Model ----
(***************************************************************************)
(* A model of PyXbar: the Menu / MenuItem tree and its rendering into the  *)
(* xbar line format (src/pyxbar/menu.py, src/pyxbar/menu_items.py), the    *)
(* process-wide Config with its diagnostics (src/pyxbar/config.py), the    *)
(* builder helper with_something (src/pyxbar/utils.py) and the Config of   *)
(* the older single-file variant (src/xbar.py).                            *)
(*                                                                         *)
(* Python strings that the code inspects character by character (shell     *)
(* commands, attribute values handed to shlex.quote) are sequences of      *)
(* one-character strings; titles and finished tokens are TLA+ strings.     *)
(***************************************************************************)
EXTENDS Integers, Sequences, FiniteSets, TLC

VARIABLES
    items,       \* the heap of MenuItem objects, by identity 1..Len(items)
    menu,        \* the Menu object: its title and its items list
    CONFIG_CLS,  \* config.py global CONFIG_CLS ("unset" until first set)
    CONFIG,      \* config.py global CONFIG: <<>> until created, else <<config>>
    varsFile,    \* contents of the <module>.vars.json file read by from_config_file
    xCONFIG,     \* xbar.py module-level CONFIG object
    result       \* what the most recent call returned (or that it raised)

vars == <<items, menu, CONFIG_CLS, CONFIG, varsFile, xCONFIG, result>>

(***************************************************************************)
(* Bounds of the model.                                                    *)
(***************************************************************************)
MaxItems == 3       \* MenuItem objects on the heap (tree specification)
MaxMenuItems == 2   \* MenuItem objects on the heap (menu, repeated renders)
MaxMsgs == 3        \* error()/warn() calls (config and menu specifications)
MaxKw == 2          \* keyword arguments of one MenuItem(...) call
MaxShellLen == 5    \* characters of a shell command string
MaxDepth == 1       \* the depth argument of a direct render(depth) call

(***************************************************************************)
(* Character-level strings.                                                *)
(***************************************************************************)
RECURSIVE Flat(_)
\* "".join(chars): the Python string a character sequence stands for
Flat(s) == IF s = <<>> THEN "" ELSE s[1] \o Flat(Tail(s))

RECURSIVE JoinWith(_, _)
\* sep.join(strs) on TLA+ strings
JoinWith(sep, strs) ==
    IF strs = <<>> THEN ""
    ELSE IF Len(strs) = 1 THEN strs[1]
    ELSE strs[1] \o sep \o JoinWith(sep, Tail(strs))

\* the characters of the model that match shlex's safe class [\w@%+=:,./-]
SafeChars ==
    { "a", "b", "c", "d", "e", "f", "g", "h", "i", "j", "k", "l", "m", "n",
      "o", "p", "q", "r", "s", "t", "u", "v", "w", "x", "y", "z",
      "A", "B", "C", "D", "E", "F", "G", "H", "I", "J", "K", "L", "M", "N",
      "O", "P", "Q", "R", "S", "T", "U", "V", "W", "X", "Y", "Z",
      "0", "1", "2", "3", "4", "5", "6", "7", "8", "9", "_",
      "@", "%", "+", "=", ":", ",", ".", "/", "-" }

HasUnsafe(s) == \E i \in 1..Len(s) : s[i] \notin SafeChars

RECURSIVE ReplaceSquote(_)
\* s.replace("'", "'\"'\"'")
ReplaceSquote(s) ==
    IF s = <<>> THEN <<>>
    ELSE (IF s[1] = "'" THEN <<"'", "\"", "'", "\"", "'">> ELSE <<s[1]>>)
         \o ReplaceSquote(Tail(s))

\* a faulty quote that returns every string unquoted
QuoteNever(s) == s

\* shlex.quote(s)
Quote(s) ==
    IF s = <<>> THEN <<"'", "'">>
    ELSE IF ~HasUnsafe(s) THEN s
    ELSE <<"'">> \o ReplaceSquote(s) \o <<"'">>

RECURSIVE SplitFrom(_, _, _, _, _, _)
\* the scanner of shlex (posix, whitespace_split) from position i on:
\*   st   "a" outside quotes, "'" inside single quotes
\*   tok  the characters of the token being read
\*   has  whether a token has been started (an empty quoted token counts)
\*   acc  the tokens read so far
SplitFrom(s, i, st, tok, has, acc) ==
    IF i > Len(s)
    THEN IF st = "'"
         THEN [ok |-> FALSE, toks |-> <<>>]       \* ValueError("No closing quotation")
         ELSE [ok |-> TRUE, toks |-> IF has THEN Append(acc, tok) ELSE acc]
    ELSE IF st = "'"
         THEN IF s[i] = "'"
              THEN SplitFrom(s, i + 1, "a", tok, TRUE, acc)
              ELSE SplitFrom(s, i + 1, "'", Append(tok, s[i]), TRUE, acc)
         ELSE IF s[i] = " "
              THEN SplitFrom(s, i + 1, "a", <<>>, FALSE,
                             IF has THEN Append(acc, tok) ELSE acc)
              ELSE IF s[i] = "'"
                   THEN SplitFrom(s, i + 1, "'", tok, TRUE, acc)
                   ELSE SplitFrom(s, i + 1, "a", Append(tok, s[i]), TRUE, acc)

\* shlex.split(s): [ok, toks]; ok = FALSE when it raises ValueError
ShlexSplit(s) == SplitFrom(s, 1, "a", <<>>, FALSE, <<>>)

\* [quote(_) for _ in toks]
QuoteAll(toks) == [i \in 1..Len(toks) |-> Quote(toks[i])]

\* str(n) for the small integers of the model
IntStr(n) ==
    IF n < 0 THEN <<"-">> \o <<(<<"0","1","2","3","4","5","6","7","8","9">>)[(-n) + 1]>>
    ELSE IF n < 10 THEN <<(<<"0","1","2","3","4","5","6","7","8","9">>)[n + 1]>>
    ELSE <<(<<"0","1","2","3","4","5","6","7","8","9">>)[(n \div 10) + 1],
           (<<"0","1","2","3","4","5","6","7","8","9">>)[(n % 10) + 1]>>

(***************************************************************************)
(* Builtin conversions on the values of the model.                         *)
(***************************************************************************)
\* Optional[bool] values are written as Python prints them
Ternary == {"None", "True", "False"}

\* str(v) for v an Optional[bool]
TernaryStr(v) ==
    CASE v = "True" -> <<"T", "r", "u", "e">>
      [] v = "False" -> <<"F", "a", "l", "s", "e">>
      [] OTHER -> <<"N", "o", "n", "e">>

\* repr(s) of a str without backslashes: single quotes, unless s holds a
\* single quote and no double quote
ReprStr(s) ==
    IF (\E i \in 1..Len(s) : s[i] = "'") /\ ~(\E i \in 1..Len(s) : s[i] = "\"")
    THEN <<"\"">> \o s \o <<"\"">>
    ELSE <<"'">> \o s \o <<"'">>

RECURSIVE ReprElems(_)
\* ", ".join(repr(e) for e in seq)
ReprElems(seq) ==
    IF seq = <<>> THEN <<>>
    ELSE IF Len(seq) = 1 THEN ReprStr(seq[1])
    ELSE ReprStr(seq[1]) \o <<",", " ">> \o ReprElems(Tail(seq))

\* str(params): the repr of a tuple or a list of str
ParamsStr(seq, type) ==
    IF type = "list" THEN <<"[">> \o ReprElems(seq) \o <<"]">>
    ELSE IF Len(seq) = 1 THEN <<"(">> \o ReprElems(seq) \o <<",", ")">>
    ELSE <<"(">> \o ReprElems(seq) \o <<")">>

\* bool(v) of a Boolable: a bool (n is 0 or 1) or a collection of length n
Truthy(boolable) == boolable.n /= 0

PyTrue == [kind |-> "bool", n |-> 1]
PyFalse == [kind |-> "bool", n |-> 0]
PyList(n) == [kind |-> "list", n |-> n]

\* the home directory os.path.expanduser substitutes for a leading "~"
Home == <<"/", "h">>

\* os.path.expanduser(path)
ExpandUser(p) ==
    IF p /= <<>> /\ p[1] = "~" /\ (Len(p) = 1 \/ p[2] = "/")
    THEN Home \o Tail(p)
    ELSE p

\* the working directory of the process, which makes a relative path absolute
ProcCwd == <<"/", "w">>

\* Path.resolve() of a path without symbolic links
Resolve(p) == IF p /= <<>> /\ p[1] = "/" THEN p ELSE ProcCwd \o <<"/">> \o p

\* the directories that exist on the filesystem
ExistingDirs == { <<"/", "t">>, Home }

(***************************************************************************)
(* MenuItem objects (menu.py) and the variants of menu_items.py.           *)
(***************************************************************************)
sMonospace == <<"m", "o", "n", "o", "s", "p", "a", "c", "e">>
sDivider == <<"-", "-", "-">>
sWhite == <<"w", "h", "i", "t", "e">>

\* list(MenuItem.__dataclass_fields__)[0:19]
Fields ==
    << "title", "key", "href", "color", "font", "size", "shell", "params",
       "terminal", "refresh", "dropdown", "length", "trim", "alternate",
       "templateImage", "image", "emojize", "ansi", "disabled" >>

\* the fields whose type hint is Optional[bool]
TernaryFields ==
    {"terminal", "refresh", "dropdown", "trim", "alternate", "emojize", "ansi",
     "disabled"}
StrFields == {"key", "href", "color", "font", "templateImage", "image"}
IntFields == {"size", "length"}

\* the dataclass defaults of MenuItem, for a given title
MenuItem(title) ==
    [ cls |-> "MenuItem",
      title |-> title, key |-> <<>>, href |-> <<>>, color |-> <<>>,
      font |-> <<>>, size |-> 0, shell |-> <<>>,
      params |-> <<>>, params_type |-> "tuple",
      terminal |-> "None", refresh |-> "None", dropdown |-> "None",
      length |-> 0, trim |-> "None", alternate |-> "None",
      templateImage |-> <<>>, image |-> <<>>,
      emojize |-> "None", ansi |-> "None", disabled |-> "None",
      title_alternate |-> <<>>,      \* None is <<>>, a str s is <<s>>
      monospace |-> "False",
      only_if |-> PyTrue,
      submenu |-> <<>>, siblings |-> <<>>,
      cwd |-> <<>>,                  \* None is <<>>, a path p is <<p>>
      shell_arg |-> <<>> ]           \* not a field of the program: the shell
                                     \* argument a ShellItem was made with

\* Divider(): title defaults to "---"
Divider == [MenuItem(sDivider) EXCEPT !.cls = "Divider"]

\* MonoItem(title): color defaults to "white", monospace to True
MonoItem(title) ==
    [MenuItem(title) EXCEPT !.cls = "MonoItem", !.color = sWhite,
                            !.monospace = "True"]

\* MenuItem.is_divider
is_divider(it) == it.title = sDivider

(***************************************************************************)
(* Config (config.py): the settings object and the module globals.         *)
(***************************************************************************)
\* Config and two subclasses of it that a script may define
Classes == {"Config", "SubA", "SubB"}

\* isinstance(cfg, cls)
IsInstance(cfg, cls) == cls = "Config" \/ cfg.cls = cls

sAndaleMono == <<"A", "n", "d", "a", "l", "e", " ", "M", "o", "n", "o">>

\* utils.cache_dir(): ~/.cache/pyxbar/<script> with the user's home expanded
cache_dir ==
    ExpandUser(<<"~", "/", ".", "c", "a", "c", "h", "e", "/", "p", "y", "x",
                 "b", "a", "r", "/", "x">>)

\* a JSON value of the vars file: a boolean b or a string s
JsonBool(b) == [t |-> "bool", b |-> b, s |-> <<>>]
JsonStr(s) == [t |-> "str", b |-> FALSE, s |-> s]

\* bool(v), str(v) of a loaded JSON value
JsonToBool(v) == IF v.t = "bool" THEN v.b ELSE v.s /= <<>>
JsonToStr(v) ==
    IF v.t = "str" THEN v.s ELSE TernaryStr(IF v.b THEN "True" ELSE "False")

\* a loaded vars file: each key is absent (<<>>) or holds a value (<<v>>)
EmptyDict == [VAR_DEBUG |-> <<>>, VAR_MONO_FONT |-> <<>>, VAR_CACHE_DIR |-> <<>>]

\* Config.__post_init__ after the dataclass __init__: Path fields are
\* expanded and resolved; no message is recorded
Config__post_init__(c) == [c EXCEPT !.CACHE_DIR = Resolve(ExpandUser(c.CACHE_DIR))]

\* cls.from_config_dict(config_dict)
from_config_dict(cls, d) ==
    Config__post_init__(
        [ cls |-> cls,
          DEBUG |-> IF d.VAR_DEBUG /= <<>> THEN JsonToBool(d.VAR_DEBUG[1]) ELSE FALSE,
          MONO_FONT |-> IF d.VAR_MONO_FONT /= <<>> THEN JsonToStr(d.VAR_MONO_FONT[1])
                        ELSE sAndaleMono,
          CACHE_DIR |-> IF d.VAR_CACHE_DIR /= <<>> THEN JsonToStr(d.VAR_CACHE_DIR[1])
                        ELSE cache_dir,
          errors |-> <<>>, warnings |-> <<>> ])

\* cls.from_config_file(), which cls.get_config() returns: file is the
\* content of the class's vars file, <<>> when the file does not exist
from_config_file(cls, file) ==
    from_config_dict(cls, IF file /= <<>> THEN file[1] ELSE EmptyDict)

\* a get_config that builds a new Config on every call
get_config_fresh(g, config_cls) ==
    IF config_cls = "None" /\ g.CONFIG_CLS = "None"
    THEN [g |-> g, raised |-> TRUE]
    ELSE LET cls == IF config_cls /= "None" THEN config_cls ELSE g.CONFIG_CLS
         IN [g |-> [g EXCEPT !.CONFIG_CLS = cls,
                             !.CONFIG = <<from_config_file(cls, g.varsFile[cls])>>],
             raised |-> FALSE]

\* get_config(config_cls) on the globals g = [items, CONFIG_CLS, CONFIG,
\* varsFile]: the globals afterwards (g.CONFIG[1] is the object returned) and
\* whether RuntimeError was raised
get_config(g, config_cls) ==
    IF config_cls = "None" /\ g.CONFIG_CLS = "None"
    THEN [g |-> g, raised |-> TRUE]
    ELSE LET cls == IF config_cls /= "None" THEN config_cls ELSE g.CONFIG_CLS
         IN IF g.CONFIG /= <<>> /\ IsInstance(g.CONFIG[1], cls)
            THEN [g |-> [g EXCEPT !.CONFIG_CLS = cls], raised |-> FALSE]
            ELSE [g |-> [g EXCEPT !.CONFIG_CLS = cls,
                                  !.CONFIG = <<from_config_file(cls, g.varsFile[cls])>>],
                  raised |-> FALSE]

\* a faulty error() that appends without looking
Config_error_append(c, msg) == [c EXCEPT !.errors = Append(c.errors, msg)]

\* Config.error(msg)
Config_error(c, msg) ==
    IF \E i \in 1..Len(c.errors) : c.errors[i] = msg
    THEN c
    ELSE [c EXCEPT !.errors = Append(c.errors, msg)]

\* Config.warn(msg)
Config_warn(c, msg) ==
    IF \E i \in 1..Len(c.warnings) : c.warnings[i] = msg
    THEN c
    ELSE [c EXCEPT !.warnings = Append(c.warnings, msg)]

\* xbar.py Config.error(msg) and Config.warn(msg): plain appends
xbar_Config_error(c, msg) == [c EXCEPT !.errors = Append(c.errors, msg)]
xbar_Config_warn(c, msg) == [c EXCEPT !.warnings = Append(c.warnings, msg)]

\* the code points of the characters that messages are made of, ascending
CharsByCodePoint ==
    <<
       " ", "!", "\"", "#", "$", "%", "&", "'", "(", ")", "*", "+", ",",
       "-", ".", "/", "0", "1", "2", "3", "4", "5", "6", "7", "8", "9",
       ":", ";", "<", "=", ">", "?", "@", "A", "B", "C", "D", "E", "F",
       "G", "H", "I", "J", "K", "L", "M", "N", "O", "P", "Q", "R", "S",
       "T", "U", "V", "W", "X", "Y", "Z", "[", "\\", "]", "^", "_", "U+0060",
       "a", "b", "c", "d", "e", "f", "g", "h", "i", "j", "k", "l", "m",
       "n", "o", "p", "q", "r", "s", "t", "u", "v", "w", "x", "y", "z",
       "{", "|", "}", "~", "U+2500", "U+2570", "U+26A0", "U+274C",
       "U+FE0F", "U+1F40D"
    >>
Ord(c) == CHOOSE i \in 1..Len(CharsByCodePoint) : CharsByCodePoint[i] = c

RECURSIVE StrLess(_, _)
\* a < b on Python str: by code point, a proper prefix first
StrLess(a, b) ==
    IF b = <<>> THEN FALSE
    ELSE IF a = <<>> THEN TRUE
    ELSE IF a[1] = b[1] THEN StrLess(Tail(a), Tail(b))
    ELSE Ord(a[1]) < Ord(b[1])

RECURSIVE Insert(_, _)
Insert(sorted, x) ==
    IF sorted = <<>> THEN <<x>>
    ELSE IF StrLess(x, sorted[1]) THEN <<x>> \o sorted
    ELSE <<sorted[1]>> \o Insert(Tail(sorted), x)

RECURSIVE sortedFrom(_, _)
sortedFrom(msgs, acc) ==
    IF msgs = <<>> THEN acc ELSE sortedFrom(Tail(msgs), Insert(acc, msgs[1]))

\* a sorted() that leaves the order of recording
sorted_unsorted(msgs) == msgs

\* sorted(messages)
sorted(msgs) == sortedFrom(msgs, <<>>)

(***************************************************************************)
(* Serialisation of one MenuItem (menu.py, menu_items.py).                 *)
(* g is the part of the program state that rendering reads and writes:     *)
(* [items, CONFIG_CLS, CONFIG, varsFile].                                  *)
(***************************************************************************)
\* an entry of a submenu, siblings or items list that is a one-character str
\* (what list.extend("---") leaves), not a Renderable; any other entry is the
\* identity of a MenuItem
StrEntry == 0

\* MenuItem._type_hint(k)
type_hint(k) ==
    CASE k \in TernaryFields -> "Optional[bool]"
      [] k \in IntFields -> "int"
      [] k = "params" -> "tuple[str, ...]"
      [] OTHER -> "str"

\* bool(v) for the value v of field k
ValTruthy(k, v) ==
    CASE type_hint(k) = "Optional[bool]" -> v = "True"
      [] type_hint(k) = "int" -> v /= 0
      [] OTHER -> v /= <<>>

\* str(v) for the value v of field k of item it
ValStr(it, k) ==
    CASE type_hint(k) = "Optional[bool]" -> TernaryStr(it[k])
      [] type_hint(k) = "int" -> IntStr(it[k])
      [] k = "params" -> ParamsStr(it.params, it.params_type)
      [] OTHER -> it[k]

\* a faulty depth_prefix that leaves the space out only for a divider at
\* depth 0
depth_prefix_spaced(it, depth) ==
    [dashes |-> IF depth > 0 THEN depth ELSE 0,
     sp |-> ~(depth = 0 /\ is_divider(it))]

\* MenuItem.depth_prefix(depth): `dashes` repetitions of "--", then a space
\* when sp
depth_prefix(it, depth) ==
    [dashes |-> IF depth > 0 THEN depth ELSE 0,
     sp |-> depth /= 0 /\ ~is_divider(it)]

\* the tokens of shell_params once shlex.split has run: ok = FALSE when the
\* split or the unpacking `shell, *params = ...` raises ValueError
QuotedTokens(sp, params) ==
    IF ~sp.ok \/ sp.toks = <<>>
    THEN [ok |-> FALSE, toks |-> <<>>]
    ELSE [ok |-> TRUE, toks |-> QuoteAll(sp.toks) \o params]

\* MenuItem.shell_params()
shell_params(it) ==
    IF it.shell = <<>> THEN [ok |-> TRUE, toks |-> <<>>]
    ELSE QuotedTokens(ShlexSplit(it.shell), it.params)

\* ("cd", expanduser(self.cwd), "&&", *shell_params) if use_cwd and self.cwd
CdPrefixed(it, use_cwd, base) ==
    IF base.ok /\ use_cwd /\ it.cwd /= <<>> /\ it.cwd[1] /= <<>>
    THEN [ok |-> TRUE,
          toks |-> <<<<"c", "d">>, ExpandUser(it.cwd[1]), <<"&", "&">>>> \o base.toks]
    ELSE base

\* a ShellItem.shell_params that never adds the cd prefix
ShellItem_shell_params_nocd(it, use_cwd) == shell_params(it)

\* ShellItem.shell_params(use_cwd)
ShellItem_shell_params(it, use_cwd) == CdPrefixed(it, use_cwd, shell_params(it))

\* self.shell_params() as all_params calls it: the method of the item's class
\* with its default arguments
self_shell_params(it) ==
    IF it.cls = "ShellItem" THEN ShellItem_shell_params(it, TRUE) ELSE shell_params(it)

RECURSIVE JoinChars(_, _)
\* sep.join(strs) on character sequences
JoinChars(sep, strs) ==
    IF strs = <<>> THEN <<>>
    ELSE IF Len(strs) = 1 THEN strs[1]
    ELSE strs[1] \o sep \o JoinChars(sep, Tail(strs))

\* ShellItem.shell_str(use_cwd)
shell_str(it, use_cwd) == JoinChars(<<" ">>, ShellItem_shell_params(it, use_cwd).toks)

\* the keys menu_params looks at: list(MenuItem.__dataclass_fields__)[1:19]
\* without "shell"
MenuParamKeys == SelectSeq(SubSeq(Fields, 2, 19), LAMBDA k : k /= "shell")

\* a faulty resolution that also clears the monospace flag
SetMonoFont_unflag(it, gc) ==
    [g |-> gc.g, it |-> [it EXCEPT !.font = gc.g.CONFIG[1].MONO_FONT,
                                   !.monospace = "False"]]

\* self.font = self.config.MONO_FONT, gc being what get_config returned
SetMonoFont(it, gc) ==
    [g |-> gc.g, it |-> [it EXCEPT !.font = gc.g.CONFIG[1].MONO_FONT]]

\* the first statement of menu_params: the item and the globals afterwards
ResolveMonospace(it, g) ==
    IF it.font = sMonospace \/ it.monospace = "True"
    THEN SetMonoFont(it, get_config(g, "Config"))
    ELSE [g |-> g, it |-> it]

\* the keys k of the pairs (k, v) menu_params yields when v is read from `seen`
YieldedKeys(r, seen) ==
    [g |-> r.g, it |-> r.it,
     keys |-> SelectSeq(MenuParamKeys,
                  LAMBDA k : \/ type_hint(k) = "Optional[bool]" /\ seen[k] /= "None"
                             \/ ValTruthy(k, seen[k]))]

\* the pairs for the item as it is after the monospace resolution
YieldedPairs(r) == YieldedKeys(r, r.it)

\* the pairs when every falsy value is omitted, explicit False included
TruthyPairs(r) ==
    [g |-> r.g, it |-> r.it,
     keys |-> SelectSeq(MenuParamKeys, LAMBDA k : ValTruthy(k, r.it[k]))]

\* a menu_params that omits every falsy value, explicit False included
menu_params_falsy(it, g) == TruthyPairs(ResolveMonospace(it, g))

\* a menu_params that reads the attributes before it resolves monospace
menu_params_late(it, g) == YieldedKeys(ResolveMonospace(it, g), it)

\* MenuItem.menu_params(): resolves monospace into font (get_config() is
\* called for MONO_FONT), then the keys (k of the (k, v) pairs) it yields
menu_params(it, g) == YieldedPairs(ResolveMonospace(it, g))

\* f"shell={shell}" and f"param{i}={p}" for the tokens of shell_params
ShellTokens(toks) ==
    IF toks = <<>> THEN <<>>
    ELSE <<[k |-> "shell", v |-> toks[1]]>>
         \o [j \in 1..(Len(toks) - 1) |->
                [k |-> "param" \o Flat(IntStr(j)), v |-> toks[j + 1]]]

\* f"{k}={quote(str(v))}" for the pairs of menu_params
MenuTokens(mp) ==
    [j \in 1..Len(mp.keys) |->
        [k |-> mp.keys[j], v |-> Quote(ValStr(mp.it, mp.keys[j]))]]

\* all_params given what shell_params returned (sp) and what menu_params
\* does (mp), which is not reached when shell_params raises
AllTokens(it, g, sp, mp) ==
    IF ~sp.ok
    THEN [g |-> g, it |-> it, raised |-> TRUE, toks |-> <<>>]
    ELSE [g |-> mp.g, it |-> mp.it, raised |-> FALSE,
          toks |-> ShellTokens(sp.toks) \o MenuTokens(mp)]

\* MenuItem.all_params(): the tokens k=v of the line, as [k, v]; raised when
\* shell_params raises (nothing has been yielded or changed then)
all_params(it, g) == AllTokens(it, g, self_shell_params(it), menu_params(it, g))

\* one output line: " | ".join((prefix + title, *tokens)); src is the identity
\* of the heap object whose render yielded it (0: a temporary object)
Line(src, prefix, title, toks) ==
    [src |-> src, dashes |-> prefix.dashes, sp |-> prefix.sp, title |-> title,
     params |-> toks]

RECURSIVE Dashes(_)
Dashes(n) == IF n = 0 THEN <<>> ELSE <<"-", "-">> \o Dashes(n - 1)

\* the text of a line, as the host reads it
LineText(l) ==
    JoinChars(<<" ", "|", " ">>,
        <<Dashes(l.dashes) \o (IF l.sp THEN <<" ">> ELSE <<>>) \o l.title>>
        \o [j \in 1..Len(l.params) |-> <<l.params[j].k, "=">> \o l.params[j].v])

\* " | ".join((self._title(depth), *self.all_params())), a being all_params
TitleLine(src, depth, a) == Line(src, depth_prefix(a.it, depth), a.it.title, a.toks)

\* a faulty alternate line that leaves the parameters out
AlternateLine_bare(src, depth, a) ==
    Line(src, depth_prefix(a.it, depth), a.it.title_alternate[1], <<>>)

\* " | ".join((self._title(depth, True), *self.all_params()))
AlternateLine(src, depth, a) ==
    Line(src, depth_prefix(a.it, depth), a.it.title_alternate[1], a.toks)

\* the alternate title line after the title line: a1 and a2 are the two calls
\* of all_params
OwnTwoLines(src, depth, a1, a2) ==
    IF a2.raised
    THEN [g |-> a2.g, it |-> a2.it, lines |-> <<TitleLine(src, depth, a1)>>,
          raised |-> TRUE]
    ELSE [g |-> a2.g, it |-> a2.it,
          lines |-> <<TitleLine(src, depth, a1), AlternateLine(src, depth, a2)>>,
          raised |-> FALSE]

\* the title line and, if title_alternate is truthy, the alternate title line
OwnLines(src, depth, a1) ==
    IF a1.raised
    THEN [g |-> a1.g, it |-> a1.it, lines |-> <<>>, raised |-> TRUE]
    ELSE IF a1.it.title_alternate = <<>> \/ a1.it.title_alternate[1] = <<>>
    THEN [g |-> a1.g, it |-> a1.it, lines |-> <<TitleLine(src, depth, a1)>>,
          raised |-> FALSE]
    ELSE OwnTwoLines(src, depth, a1, all_params(a1.it, a1.g))

\* the first statements of MenuItem.render(depth) for an item whose only_if
\* is truthy: the title line and the alternate title line
RenderOwn(it, src, depth, g) == OwnLines(src, depth, all_params(it, g))

\* a render that yields nothing, and one that raises at once
Nothing(g) == [g |-> g, lines |-> <<>>, raised |-> FALSE]
Raises(g) == [g |-> g, lines |-> <<>>, raised |-> TRUE]

\* two parts of one generator: the lines of a, then those of b
Join(a, b) == [g |-> b.g, lines |-> a.lines \o b.lines, raised |-> b.raised]

\* the statements `first` followed by the statements `rest`, which run in the
\* state that first leaves, unless first raised
Then(first, rest(_)) == IF first.raised THEN first ELSE Join(first, rest(first.g))

\* the item yielded by ShellItem.subclass_render_hook
HookItem(it, cfg) ==
    [MenuItem(<<"U+2570", "U+2500", " ">> \o shell_str(it, FALSE))
        EXCEPT !.font = cfg.MONO_FONT, !.disabled = "True"]

\* the lines of a rendered temporary item
LinesOf(r) == [g |-> r.g, lines |-> r.lines, raised |-> r.raised]

\* ShellItem.subclass_render_hook rendered at depth, gc being what
\* self.config returned
HookLines(it, depth, gc) ==
    IF ~gc.g.CONFIG[1].DEBUG THEN Nothing(gc.g)
    ELSE LinesOf(RenderOwn(HookItem(it, gc.g.CONFIG[1]), 0, depth, gc.g))

\* the lines of the items subclass_render_hook() yields, rendered at depth:
\* for a ShellItem in DEBUG mode one disabled line showing the command
subclass_render_hook(it, depth, g) ==
    IF it.cls /= "ShellItem" THEN Nothing(g)
    ELSE HookLines(it, depth, get_config(g, "Config"))

(***************************************************************************)
(* MenuItem.render, Config.render and Menu.render.                         *)
(* A render returns [g, lines, raised]: the state afterwards, the lines    *)
(* yielded, and whether an exception ended it after those lines.           *)
(***************************************************************************)
RECURSIVE render(_, _, _), renderAll(_, _, _)
RECURSIVE render_siblings_first(_, _, _), render_flat(_, _, _), render_ungated(_, _, _)

\* `for item in entries: yield from item.render(depth)`; a str entry has no
\* render
renderAll(entries, depth, g) ==
    IF entries = <<>> THEN Nothing(g)
    ELSE IF entries[1] = StrEntry THEN Raises(g)
    ELSE Then(render(entries[1], depth, g),
              LAMBDA g1 : renderAll(Tail(entries), depth, g1))

\* the own lines of heap object i; the object keeps the font that
\* menu_params assigned
StoreOwn(i, own) ==
    [g |-> [own.g EXCEPT !.items[i] = own.it], lines |-> own.lines,
     raised |-> own.raised]

\* the own lines and the hook lines of heap object i
OwnAndHook(i, depth, g) ==
    Then(StoreOwn(i, RenderOwn(g.items[i], i, depth, g)),
         LAMBDA g1 : subclass_render_hook(g1.items[i], depth, g1))

\* a render that yields the siblings before the submenu
render_siblings_first(i, depth, g) ==
    IF ~Truthy(g.items[i].only_if) THEN Nothing(g)
    ELSE Then(Then(OwnAndHook(i, depth, g),
                   LAMBDA g2 : renderAll(g2.items[i].siblings, depth, g2)),
              LAMBDA g3 : renderAll(g3.items[i].submenu, depth + 1, g3))

\* a render that does not deepen the submenu
render_flat(i, depth, g) ==
    IF ~Truthy(g.items[i].only_if) THEN Nothing(g)
    ELSE Then(Then(OwnAndHook(i, depth, g),
                   LAMBDA g2 : renderAll(g2.items[i].submenu, depth, g2)),
              LAMBDA g3 : renderAll(g3.items[i].siblings, depth, g3))

\* a render whose only_if gates the item's own lines only
render_ungated(i, depth, g) ==
    Then(Then(IF Truthy(g.items[i].only_if) THEN OwnAndHook(i, depth, g) ELSE Nothing(g),
              LAMBDA g2 : renderAll(g2.items[i].submenu, depth + 1, g2)),
         LAMBDA g3 : renderAll(g3.items[i].siblings, depth, g3))

\* MenuItem.render(depth) of the heap object i
render(i, depth, g) ==
    IF ~Truthy(g.items[i].only_if) THEN Nothing(g)
    ELSE Then(Then(OwnAndHook(i, depth, g),
                   LAMBDA g2 : renderAll(g2.items[i].submenu, depth + 1, g2)),
              LAMBDA g3 : renderAll(g3.items[i].siblings, depth, g3))

\* the lines of a temporary item without submenu or siblings
RenderTemp(it, depth, g) == RenderOwn(it, 0, depth, g).lines

\* the lines Config.render yields for one category of messages
CategoryLines(title, color, glyph, messages, sortedMessages, depth, g) ==
    IF messages = <<>> THEN <<>>
    ELSE RenderTemp(Divider, depth, g)
         \o RenderTemp([MenuItem(title) EXCEPT !.color = color], depth, g)
         \o [j \in 1..Len(sortedMessages) |->
                RenderTemp(MenuItem(Dashes(depth) \o <<" ">> \o glyph \o <<" ">>
                                    \o sortedMessages[j]), depth, g)[1]]

sErrors == <<"e", "r", "r", "o", "r", "s">>
sWarnings == <<"w", "a", "r", "n", "i", "n", "g", "s">>
sRed == <<"r", "e", "d">>
sYellow == <<"y", "e", "l", "l", "o", "w">>
GlyphError == <<"U+274C">>
GlyphWarning == <<"U+26A0", "U+FE0F">>

\* str(getattr(config, k)) for the lines of the Vars submenu
ConfigFieldStr(c, k) ==
    CASE k = "DEBUG" -> TernaryStr(IF c.DEBUG THEN "True" ELSE "False")
      [] k = "MONO_FONT" -> c.MONO_FONT
      [] k = "CACHE_DIR" -> c.CACHE_DIR
      [] k = "_errors" -> ParamsStr(c.errors, "list")
      [] k = "_warnings" -> ParamsStr(c.warnings, "list")
      [] OTHER -> <<"V", "A", "R", "_">>

\* list(Config.__dataclass_fields__), as characters
ConfigDataclassFields ==
    << "DEBUG", "MONO_FONT", "CACHE_DIR", "_errors", "_warnings", "prefix" >>

\* sys.version
sys_version == <<"3">>

\* the lines Config.render yields in DEBUG mode
DebugLines(c, depth, g) ==
    IF ~c.DEBUG THEN <<>>
    ELSE RenderTemp(MenuItem(<<"U+1F40D", " ">> \o sys_version), 0, g)
         \o RenderTemp(MenuItem(<<"V", "a", "r", "s">>), depth, g)
         \o [j \in 1..Len(ConfigDataclassFields) |->
                RenderTemp(MenuItem(<<ConfigDataclassFields[j], ":", " ">>
                                    \o ConfigFieldStr(c, ConfigDataclassFields[j])),
                           depth + 1, g)[1]]

\* a faulty Config.render that yields the warnings before the errors
Config_render_warnings_first(c, depth, g) ==
    CategoryLines(sWarnings, sYellow, GlyphWarning, c.warnings, sorted(c.warnings),
                  depth, g)
    \o CategoryLines(sErrors, sRed, GlyphError, c.errors, sorted(c.errors), depth, g)
    \o DebugLines(c, depth, g)

\* Config.render(depth)
Config_render(c, depth, g) ==
    CategoryLines(sErrors, sRed, GlyphError, c.errors, sorted(c.errors), depth, g)
    \o CategoryLines(sWarnings, sYellow, GlyphWarning, c.warnings, sorted(c.warnings),
                     depth, g)
    \o DebugLines(c, depth, g)

\* xbar.py Config.render(depth): the Vars item is rendered but its generator
\* is never consumed, so DEBUG adds no line
xbar_Config_render(c, depth, g) ==
    CategoryLines(sErrors, sRed, GlyphError, c.errors, sorted(c.errors), depth, g)
    \o CategoryLines(sWarnings, sYellow, GlyphWarning, c.warnings, sorted(c.warnings),
                     depth, g)

\* a line that is a plain string of Menu.render
RawLine(text) == [src |-> 0, dashes |-> 0, sp |-> FALSE, title |-> text, params |-> <<>>]

\* self.title, "---"
HeadLines(m, g) ==
    [g |-> g, lines |-> <<RawLine(m.title), RawLine(sDivider)>>, raised |-> FALSE]

\* *get_config().render(), gc being what get_config returned
ConfigLines(gc) ==
    [g |-> gc.g, lines |-> Config_render(gc.g.CONFIG[1], 0, gc.g), raised |-> FALSE]

\* "\n".join(parts): no string is returned when a part raised
Joined(parts) == IF parts.raised THEN Raises(parts.g) ELSE parts

\* a Menu.render that puts the diagnostics before the items
Menu_render_config_first(m, g) ==
    Joined(Then(Then(HeadLines(m, g),
                     LAMBDA g1 : ConfigLines(get_config(g1, "Config"))),
                LAMBDA g2 : renderAll(m.items, 0, g2)))

\* Menu.render(): the lines that are joined with "\n"; raised when an item's
\* render raises
Menu_render(m, g) ==
    Joined(Then(Then(HeadLines(m, g),
                     LAMBDA g1 : renderAll(m.items, 0, g1)),
                LAMBDA g2 : ConfigLines(get_config(g2, "Config"))))

(***************************************************************************)
(* Construction: ShellItem, with_something and the builders.               *)
(***************************************************************************)
\* f"<cross mark> cwd does not exist at {self.cwd}"
CwdMessage(cwd) ==
    GlyphError \o <<" ", "c", "w", "d", " ", "d", "o", "e", "s", " ", "n", "o", "t",
                    " ", "e", "x", "i", "s", "t", " ", "a", "t", " ">> \o cwd

\* config.error(msg) and config.warn(msg), gc being what get_config returned
ErrorOn(gc, msg) == [gc.g EXCEPT !.CONFIG = <<Config_error(gc.g.CONFIG[1], msg)>>]
WarnOn(gc, msg) == [gc.g EXCEPT !.CONFIG = <<Config_warn(gc.g.CONFIG[1], msg)>>]

\* `if self.cwd and not self.cwd.exists(): self.config.error(...)`
CheckCwd(it, g) ==
    IF it.cwd /= <<>> /\ it.cwd[1] /= <<>> /\ it.cwd[1] \notin ExistingDirs
    THEN ErrorOn(get_config(g, "Config"), CwdMessage(it.cwd[1]))
    ELSE g

\* `self.shell, *self.params = (quote(_) for _ in shlex.split(self.shell))`,
\* sp being what shlex.split returned
SplitShell(it, g, sp) ==
    IF ~sp.ok \/ sp.toks = <<>>
    THEN [g |-> g, it |-> it, raised |-> TRUE]
    ELSE [g |-> g,
          it |-> [it EXCEPT !.shell = Quote(sp.toks[1]),
                            !.params = QuoteAll(Tail(sp.toks)),
                            !.params_type = "list"],
          raised |-> FALSE]

\* ShellItem.__post_init__ on the object `it`; it.cwd is what self.cwd reads
\* at that moment. raised when shlex.split or the unpacking raises ValueError
ShellItem__post_init__(it, g) ==
    IF it.shell /= <<>> /\ it.params = <<>>
    THEN SplitShell(it, CheckCwd(it, g), ShlexSplit(it.shell))
    ELSE [g |-> CheckCwd(it, g), it |-> it, raised |-> FALSE]

\* `if cwd is not None: self.cwd = cwd`, post being the object after
\* super().__init__
AssignCwd(post, cwd) ==
    [g |-> post.g,
     it |-> IF cwd /= <<>> THEN [post.it EXCEPT !.cwd = cwd] ELSE post.it,
     raised |-> post.raised]

\* ShellItem(title, shell, cwd, **kwargs): kw holds title, shell and the
\* keyword arguments. super().__init__ runs __post_init__ while the instance
\* has no cwd of its own, so self.cwd reads the class default None; cwd is
\* assigned afterwards
ShellItem(kw, cwd, g) ==
    AssignCwd(ShellItem__post_init__([kw EXCEPT !.cls = "ShellItem", !.cwd = <<>>,
                                                !.shell_arg = kw.shell], g),
              cwd)

\* one argument of a with_* call
ArgItem(i) == [kind |-> "item", ids |-> <<i>>]       \* a MenuItem
ArgLiteral == [kind |-> "---", ids |-> <<>>]         \* the str "---"
ArgList(ids) == [kind |-> "list", ids |-> ids]       \* a list of MenuItems

RECURSIVE with_something(_, _, _), with_something_fixed(_, _, _)

\* a with_something whose "---" branch stops after appending the Divider
with_something_fixed(key, children, heap) ==
    IF children = <<>> THEN [key |-> key, heap |-> heap]
    ELSE LET child == children[1]
             key1 == IF child.kind = "---" THEN Append(key, Len(heap) + 1)
                     ELSE key \o child.ids
             heap1 == IF child.kind = "---" THEN Append(heap, Divider) ELSE heap
         IN with_something_fixed(key1, Tail(children), heap1)

\* utils.with_something(ret, key, *children): the list and the heap
\* afterwards (Divider() is a new object)
with_something(key, children, heap) ==
    IF children = <<>> THEN [key |-> key, heap |-> heap]
    ELSE LET child == children[1]
             \* if child == "---": key.append(Divider())
             key1 == IF child.kind = "---" THEN Append(key, Len(heap) + 1) ELSE key
             heap1 == IF child.kind = "---" THEN Append(heap, Divider) ELSE heap
             \* if isinstance(child, Iterable): key.extend(child)
             \* else: key.append(child)
             key2 == IF child.kind = "---"
                     THEN key1 \o <<StrEntry, StrEntry, StrEntry>>
                     ELSE key1 \o child.ids
         IN with_something(key2, Tail(children), heap1)

\* bool(child) in Menu.with_items: an empty list is dropped
ArgTruthy(child) == child.kind /= "list" \/ child.ids /= <<>>

\* what the external process does: it exits with status 0 or not, having
\* written the bytes out
Exited(status, out) == [started |-> TRUE, status |-> status, out |-> out]

\* the program named by the first argument is not found, so no process starts
NotFound == [started |-> FALSE, status |-> 0, out |-> <<>>]

\* whether a process can start in self.cwd, which subprocess takes as it is:
\* None, or a directory that exists ("" and an unexpanded "~/..." do not)
CwdUsable(it) == it.cwd = <<>> \/ it.cwd[1] \in ExistingDirs

\* bytes.decode("utf-8") for bytes below 128
Decode(bytes) ==
    [j \in 1..Len(bytes) |->
        IF bytes[j] = 10 THEN "\n" ELSE CharsByCodePoint[bytes[j] - 31]]

Whitespace == {" ", "\n"}

RECURSIVE LStrip(_), RStrip(_)
LStrip(s) == IF s /= <<>> /\ s[1] \in Whitespace THEN LStrip(Tail(s)) ELSE s
RStrip(s) ==
    IF s /= <<>> /\ s[Len(s)] \in Whitespace THEN RStrip(SubSeq(s, 1, Len(s) - 1)) ELSE s

\* str.strip()
Strip(s) == RStrip(LStrip(s))

(***************************************************************************)
(* xbar.py: the module-level CONFIG = Config().                            *)
(***************************************************************************)
\* xbar.py Config.__post_init__, run by Config(): file is the content of
\* xbar.py.vars.json, <<>> when it does not exist
xbar_Config(file) ==
    LET c0 == [cls |-> "xbar.Config", DEBUG |-> FALSE, errors |-> <<>>, warnings |-> <<>>]
        debug == file /= <<>> /\ file[1].VAR_DEBUG /= <<>> /\ JsonToBool(file[1].VAR_DEBUG[1])
        notSet(k, v) == k \o <<" ", "i", "s", " ", "n", "o", "t", " ", "s", "e", "t", ",", " ", "u", "s", "i", "n", "g", " ", "U+0060">> \o v \o <<"U+0060">>
        c1 == [c0 EXCEPT !.DEBUG = debug]
        c2 == IF debug
              THEN xbar_Config_warn(c1, notSet(<<"_", "e", "r", "r", "o", "r", "s">>, ParamsStr(c1.errors, "list")))
              ELSE c1
        c3 == IF debug
              THEN xbar_Config_warn(c2, notSet(<<"_", "w", "a", "r", "n", "i", "n", "g", "s">>, ParamsStr(c2.warnings, "list")))
              ELSE c2
    IN IF file = <<>>
       THEN xbar_Config_warn(c0, <<"x", "b", "a", "r", ".", "p", "y", ".", "v", "a", "r", "s", ".", "j", "s", "o", "n", " ", "i", "s", " ", "m", "i", "s", "s", "i", "n", "g", ",", " ", "u", "s", "i", "n", "g", " ", "d", "e", "f", "a", "u", "l", "t", "s">>)
       ELSE c3

(***************************************************************************)
(* The state machine.                                                      *)
(***************************************************************************)
G == [items |-> items, CONFIG_CLS |-> CONFIG_CLS, CONFIG |-> CONFIG, varsFile |-> varsFile]

SetG(g) ==
    /\ items' = g.items
    /\ CONFIG_CLS' = g.CONFIG_CLS
    /\ CONFIG' = g.CONFIG
    /\ varsFile' = g.varsFile

\* the outcome of a call: the lines it yielded and whether it raised
Outcome(op, target, depth, lines, raised) ==
    [op |-> op, target |-> target, depth |-> depth, lines |-> lines,
     raised |-> raised, argv |-> <<>>, value |-> <<>>, again |-> FALSE]

\* the outcome o, noting whether the call before it was this very call
Noting(o) ==
    [o EXCEPT !.again = result.op = o.op /\ result.target = o.target
                        /\ result.depth = o.depth]

\* the outcome of a call that returns its object (or nothing)
Returned(op, target) ==
    [op |-> op, target |-> target, depth |-> 0, lines |-> <<>>, raised |-> FALSE,
     argv |-> <<>>, value |-> <<>>, again |-> FALSE]

\* the outcome of check_output(check): the argument vector handed to the
\* process, what the process did and whether it started, the str returned, and
\* whether the call raised
Ran(target, check, argv, proc, started, value, raised) ==
    [op |-> "check_output", target |-> target, depth |-> 0, lines |-> <<>>,
     raised |-> raised, argv |-> argv, proc |-> proc, value |-> value,
     again |-> FALSE, check |-> check, started |-> started]

\* a faulty check_output that raises on every non-zero exit
RunProcess_strict(i, check, proc, sp, cwdOk) ==
    IF ~sp.ok THEN Ran(i, check, <<>>, proc, FALSE, <<>>, TRUE)
    ELSE IF ~cwdOk \/ ~proc.started
    THEN Ran(i, check, sp.toks, proc, FALSE, <<>>, TRUE)
    ELSE IF proc.status /= 0
    THEN Ran(i, check, sp.toks, proc, TRUE, <<>>, TRUE)
    ELSE Ran(i, check, sp.toks, proc, TRUE, Strip(Decode(proc.out)), FALSE)

\* the rest of check_output once shell_params has returned sp: the process is
\* run with list(sp) in self.cwd (cwdOk: it can start there) and does `proc`
RunProcess(i, check, proc, sp, cwdOk) ==
    IF ~sp.ok THEN Ran(i, check, <<>>, proc, FALSE, <<>>, TRUE)
    ELSE IF ~cwdOk \/ ~proc.started
    THEN Ran(i, check, sp.toks, proc, FALSE, <<>>, TRUE)     \* FileNotFoundError
    ELSE IF proc.status /= 0
    THEN Ran(i, check, sp.toks, proc, TRUE, <<>>, check)     \* CalledProcessError: raise or ""
    ELSE Ran(i, check, sp.toks, proc, TRUE, Strip(Decode(proc.out)), FALSE)

\* ShellItem.check_output(check) on heap object i: what it returns
check_output(i, check, proc, g) ==
    RunProcess(i, check, proc, ShellItem_shell_params(g.items[i], FALSE),
               CwdUsable(g.items[i]))

\* the globals after check_output: `self.config.DEBUG` calls get_config()
\* once shell_params has returned
check_output_globals(i, g) ==
    IF ShellItem_shell_params(g.items[i], FALSE).ok
    THEN get_config(g, "Config").g
    ELSE g

\* the vars files a run may find: none, or one that turns DEBUG on
FileMissing == <<>>
FileDebug == <<[EmptyDict EXCEPT !.VAR_DEBUG = <<JsonBool(TRUE)>>]>>
FileEmpty == <<EmptyDict>>
\* a vars file that sets the monospace font name to the empty string
FileNoFont == <<[EmptyDict EXCEPT !.VAR_MONO_FONT = <<JsonStr(<<>>)>>]>>

sT == <<"T">>
sA == <<"A">>
sB == <<"B">>

\* the state after the imports and Menu("T")
InitWith(files, xfiles) ==
    /\ items = <<>>
    /\ menu = [title |-> sT, items |-> <<>>]
    /\ CONFIG_CLS = "None"
    /\ CONFIG = <<>>
    /\ \E f \in files, xf \in xfiles :
          /\ varsFile = [c \in Classes \cup {"xbar"} |->
                            IF c = "Config" THEN f ELSE IF c = "xbar" THEN xf
                            ELSE FileMissing]
          /\ xCONFIG = xbar_Config(xf)
    /\ result = Returned("import", 0)

\* whether the object c is in some list already
Attached(c) ==
    \/ \E j \in 1..Len(menu.items) : menu.items[j] = c
    \/ \E p \in 1..Len(items) :
          \/ \E j \in 1..Len(items[p].submenu) : items[p].submenu[j] = c
          \/ \E j \in 1..Len(items[p].siblings) : items[p].siblings[j] = c

Roots == {c \in 1..Len(items) : ~Attached(c)}

\* the arguments tried for a with_* call on object p (0: the Menu), in the
\* forms the script uses: "item", an object made after p that is in no list
\* yet; "list", a list of one such object or of none; "---", the str "---"
\* (which makes a Divider, so only while there is room for one)
ArgsFor(p, forms) ==
    (IF "item" \in forms THEN {ArgItem(c) : c \in {r \in Roots : r > p}} ELSE {})
    \cup (IF "list" \in forms
          THEN {ArgList(<<c>>) : c \in {r \in Roots : r > p}} \cup {ArgList(<<>>)}
          ELSE {})
    \cup (IF "---" \in forms /\ Len(items) < MaxItems THEN {ArgLiteral} ELSE {})

\* MenuItem(title, **kwargs), Divider(), MonoItem(title), while there is room
NewMenuItem(kinds, room) ==
    /\ room
    /\ \E it \in kinds :
          /\ items' = Append(items, it)
          /\ result' = Returned("MenuItem", Len(items) + 1)
    /\ UNCHANGED <<menu, CONFIG_CLS, CONFIG, varsFile, xCONFIG>>

\* ShellItem(title, shell, cwd, **kwargs), while there is room
NewShellItem(kws, cwds, room) ==
    /\ room
    /\ \E kw \in kws, cwd \in cwds : \E new \in {ShellItem(kw, cwd, G)} :
             IF new.raised
             THEN /\ SetG(new.g)
                  /\ result' = [Returned("ShellItem", 0) EXCEPT !.raised = TRUE]
             ELSE /\ SetG([new.g EXCEPT !.items = Append(new.g.items, new.it)])
                  /\ result' = Returned("ShellItem", Len(items) + 1)
    /\ UNCHANGED <<menu, xCONFIG>>

\* p.with_submenu(arg)
WithSubmenu(forms) ==
    \E p \in 1..Len(items) : \E arg \in ArgsFor(p, forms) :
       \E w \in {with_something(items[p].submenu, <<arg>>, items)} :
          /\ items' = [w.heap EXCEPT ![p].submenu = w.key]
          /\ result' = Returned("with_submenu", p)
          /\ UNCHANGED <<menu, CONFIG_CLS, CONFIG, varsFile, xCONFIG>>

\* p.with_siblings(arg)
WithSiblings(forms) ==
    \E p \in 1..Len(items) : \E arg \in ArgsFor(p, forms) :
       \E w \in {with_something(items[p].siblings, <<arg>>, items)} :
          /\ items' = [w.heap EXCEPT ![p].siblings = w.key]
          /\ result' = Returned("with_siblings", p)
          /\ UNCHANGED <<menu, CONFIG_CLS, CONFIG, varsFile, xCONFIG>>

\* menu.with_items(arg)
WithItems(forms) ==
    \E arg \in ArgsFor(0, forms) :
       \E w \in {with_something(menu.items, SelectSeq(<<arg>>, ArgTruthy), items)} :
          /\ items' = w.heap
          /\ menu' = [menu EXCEPT !.items = w.key]
          /\ result' = Returned("with_items", 0)
          /\ UNCHANGED <<CONFIG_CLS, CONFIG, varsFile, xCONFIG>>

\* list(i.render(depth)) on an object that is in no list
RenderItem ==
    \E i \in Roots, depth \in 0..MaxDepth :
       \E r \in {render(i, depth, G)} :
          /\ SetG(r.g)
          /\ result' = Outcome("render", i, depth, r.lines, r.raised)
          /\ UNCHANGED <<menu, xCONFIG>>

\* list(i.render(depth)) where the script may repeat the call
RenderAgain ==
    \E i \in Roots, depth \in 0..MaxDepth :
       \E r \in {render(i, depth, G)} :
          /\ SetG(r.g)
          /\ result' = Noting(Outcome("render", i, depth, r.lines, r.raised))
          /\ UNCHANGED <<menu, xCONFIG>>

\* menu.render()
MenuRender ==
    \E r \in {Menu_render(menu, G)} :
       /\ SetG(r.g)
       /\ result' = Outcome("Menu.render", 0, 0, r.lines, r.raised)
       /\ UNCHANGED <<menu, xCONFIG>>

\* i.check_output(check) on a ShellItem, the process doing one of `procs`
CheckOutput(procs) ==
    \E i \in {j \in 1..Len(items) : items[j].cls = "ShellItem"} :
       \E check \in BOOLEAN, proc \in procs :
          /\ result' = check_output(i, check, proc, G)
          /\ SetG(check_output_globals(i, G))
          /\ UNCHANGED <<menu, xCONFIG>>

\* how many error() and warn() calls have left a message
Recorded ==
    (IF CONFIG = <<>> THEN 0 ELSE Len(CONFIG[1].errors) + Len(CONFIG[1].warnings))
    + Len(xCONFIG.errors) + Len(xCONFIG.warnings)

\* get_config(cls).error(msg)
ConfigError(classes, msgs) ==
    \E cls \in classes, msg \in msgs :
       /\ Recorded < MaxMsgs
       /\ SetG(ErrorOn(get_config(G, cls), msg))
       /\ result' = Returned("error", 0)
       /\ UNCHANGED <<menu, xCONFIG>>

\* get_config(cls).warn(msg)
ConfigWarn(classes, msgs) ==
    \E cls \in classes, msg \in msgs :
       /\ Recorded < MaxMsgs
       /\ SetG(WarnOn(get_config(G, cls), msg))
       /\ result' = Returned("warn", 0)
       /\ UNCHANGED <<menu, xCONFIG>>

\* list(get_config().render(depth))
ConfigRender ==
    \E depth \in 0..MaxDepth :
       \E gc \in {get_config(G, "Config")} :
          /\ SetG(gc.g)
          /\ result' = Outcome("Config.render", 0, depth,
                               Config_render(gc.g.CONFIG[1], depth, gc.g), FALSE)
          /\ UNCHANGED <<menu, xCONFIG>>

\* xbar.py: CONFIG.error(msg)
XbarError(msgs) ==
    \E msg \in msgs :
       /\ Recorded < MaxMsgs
       /\ xCONFIG' = xbar_Config_error(xCONFIG, msg)
       /\ result' = Returned("xbar.error", 0)
       /\ UNCHANGED <<items, menu, CONFIG_CLS, CONFIG, varsFile>>

\* xbar.py: CONFIG.warn(msg)
XbarWarn(msgs) ==
    \E msg \in msgs :
       /\ Recorded < MaxMsgs
       /\ xCONFIG' = xbar_Config_warn(xCONFIG, msg)
       /\ result' = Returned("xbar.warn", 0)
       /\ UNCHANGED <<items, menu, CONFIG_CLS, CONFIG, varsFile>>

\* xbar.py: list(CONFIG.render(depth))
XbarConfigRender ==
    \E depth \in 0..MaxDepth :
       /\ result' = Outcome("xbar.Config.render", 0, depth,
                            xbar_Config_render(xCONFIG, depth, G), FALSE)
       /\ UNCHANGED <<items, menu, CONFIG_CLS, CONFIG, varsFile, xCONFIG>>

(***************************************************************************)
(* Specification of the diagnostics of pyxbar/config.py: messages are      *)
(* recorded on the ambient Config and the Config is rendered.              *)
(***************************************************************************)
\* the messages a script records
Msgs == { <<"z">>, <<"a">>, <<"a", "b">> }

InitConfig == InitWith({FileMissing, FileDebug}, {FileEmpty})

NextConfig ==
    \/ ConfigError({"Config"}, Msgs)
    \/ ConfigWarn({"Config"}, Msgs)
    \/ ConfigRender

SpecConfig == InitConfig /\ [][NextConfig]_vars

(***************************************************************************)
(* Specification of the diagnostics of xbar.py: the same calls on its      *)
(* module-level CONFIG.                                                    *)
(***************************************************************************)
InitXbar == InitWith({FileMissing}, {FileEmpty, FileDebug})

NextXbar ==
    \/ XbarError(Msgs)
    \/ XbarWarn(Msgs)
    \/ XbarConfigRender

SpecXbar == InitXbar /\ [][NextXbar]_vars

(***************************************************************************)
(* Properties of the diagnostics.                                          *)
(***************************************************************************)
\* whether line l is the line of a message of the section with this glyph
IsMessageLine(l, glyph, depth) ==
    LET pre == Dashes(depth) \o <<" ">> \o glyph \o <<" ">>
    IN Len(l.title) >= Len(pre) /\ SubSeq(l.title, 1, Len(pre)) = pre

\* the message that a message line shows
MessageOf(l, glyph, depth) ==
    SubSeq(l.title, Len(Dashes(depth)) + Len(glyph) + 3, Len(l.title))

\* the message lines of one section of the rendered diagnostics, in order
Section(lines, glyph, depth) ==
    SelectSeq(lines, LAMBDA l : IsMessageLine(l, glyph, depth))

\* the elements of a sequence
Range(seq) == {seq[j] : j \in 1..Len(seq)}

\* each message of `recorded` is on exactly one line of the section
EachOnce(recorded, lines, glyph, depth) ==
    LET sec == Section(lines, glyph, depth)
    IN \A m \in Range(recorded) :
          Cardinality({j \in 1..Len(sec) : MessageOf(sec[j], glyph, depth) = m}) = 1

\* C5: after any sequence of error and warn calls, each distinct message is on
\* exactly one line of its rendered section, however often it was added; here
\* for the Config of xbar.py, whose error and warn append without looking
C5_EachMessageOnce ==
    result.op = "xbar.Config.render" =>
       /\ EachOnce(xCONFIG.errors, result.lines, GlyphError, result.depth)
       /\ EachOnce(xCONFIG.warnings, result.lines, GlyphWarning, result.depth)

\* the same property for the Config of pyxbar/config.py
ConfigEachMessageOnce ==
    result.op = "Config.render" =>
       /\ EachOnce(CONFIG[1].errors, result.lines, GlyphError, result.depth)
       /\ EachOnce(CONFIG[1].warnings, result.lines, GlyphWarning, result.depth)

\* the messages of a section ascend
Ascending(sec, glyph, depth) ==
    \A j, k \in 1..Len(sec) :
       j < k => ~StrLess(MessageOf(sec[k], glyph, depth), MessageOf(sec[j], glyph, depth))

\* C6: in each rendered section the message lines are in ascending
\* lexicographic order of the messages and show every recorded message,
\* whatever the order of recording
C6_SectionsSorted ==
    result.op = "Config.render" =>
       LET errs == Section(result.lines, GlyphError, result.depth)
           warns == Section(result.lines, GlyphWarning, result.depth)
       IN /\ Ascending(errs, GlyphError, result.depth)
          /\ Ascending(warns, GlyphWarning, result.depth)
          /\ {MessageOf(errs[j], GlyphError, result.depth) : j \in 1..Len(errs)}
                = Range(CONFIG[1].errors)
          /\ {MessageOf(warns[j], GlyphWarning, result.depth) : j \in 1..Len(warns)}
                = Range(CONFIG[1].warnings)

\* a render of warnings recorded as "z", "a", "ab" and errors as "ab", "a"
C6_Witness ==
    /\ result.op = "Config.render"
    /\ CONFIG /= <<>>
    /\ CONFIG[1].warnings = << <<"z">>, <<"a">>, <<"a", "b">> >>
    /\ Len(Section(result.lines, GlyphWarning, result.depth)) = 3

(***************************************************************************)
(* Specification of item trees: items are made, nested with with_submenu   *)
(* and with_siblings, and an item that is in no list is rendered.          *)
(***************************************************************************)
\* the items a script makes: a plain item and a Divider
TreeKinds == { MenuItem(sA), Divider }

InitTree == InitWith({FileMissing}, {FileEmpty})

NextTree ==
    \/ NewMenuItem(TreeKinds, Len(items) < MaxItems)
    \/ WithSubmenu({"item", "list"})
    \/ WithSiblings({"item", "list"})
    \/ RenderItem

SpecTree == InitTree /\ [][NextTree]_vars

(***************************************************************************)
(* Properties of the rendered tree.  A line's src names the object whose   *)
(* render yielded it, so the lines are compared with the lists as they are.*)
(***************************************************************************)
\* the objects in a list (a str entry is no object)
ObjectsOf(entries) == {entries[j] : j \in 1..Len(entries)} \ {StrEntry}

RECURSIVE Block(_)
\* the object p with everything its submenu and siblings reach
Block(p) ==
    {p} \cup UNION {Block(c) : c \in ObjectsOf(items[p].submenu)
                                     \cup ObjectsOf(items[p].siblings)}

RECURSIVE VisibleBlock(_)
\* the objects of the block of p that no falsy only_if hides
VisibleBlock(p) ==
    IF ~Truthy(items[p].only_if) THEN {}
    ELSE {p} \cup UNION {VisibleBlock(c) : c \in ObjectsOf(items[p].submenu)
                                                 \cup ObjectsOf(items[p].siblings)}

RECURSIVE LevelFrom(_, _)
\* how many submenu lists lie between p and the object q of its block
LevelFrom(p, q) ==
    IF q = p THEN 0
    ELSE IF \E c \in ObjectsOf(items[p].submenu) : q \in Block(c)
    THEN 1 + LevelFrom(CHOOSE c \in ObjectsOf(items[p].submenu) : q \in Block(c), q)
    ELSE LevelFrom(CHOOSE c \in ObjectsOf(items[p].siblings) : q \in Block(c), q)

\* the positions in the output of the lines that the objects of `objs` yielded
Positions(objs) == {j \in 1..Len(result.lines) : result.lines[j].src \in objs}

\* every line of A comes before every line of B
Before(A, B) == \A a \in A, b \in B : a < b

\* the text of line l starts with n two-dash markers, then a space unless the
\* line is a Divider's, then the title
StartsWithMarkers(l, n) ==
    /\ l.dashes = n
    /\ SubSeq(LineText(l), 1, 2 * n) = Dashes(n)
    /\ LET rest == SubSeq(LineText(l), 2 * n + 1, Len(LineText(l)))
       IN IF l.title = sDivider \/ n = 0
          THEN SubSeq(rest, 1, Len(l.title)) = l.title
          ELSE SubSeq(rest, 1, Len(l.title) + 1) = <<" ">> \o l.title

\* C7: when an item is rendered at depth d, each object below it is rendered
\* one level deeper per submenu list on the way to it, and its lines begin with
\* exactly that many two-dash markers: d+1 for a child, d+2 for a grandchild
C7_ChildDepth ==
    (result.op = "render" /\ ~result.raised) =>
       /\ \A q \in VisibleBlock(result.target) : Positions({q}) /= {}
       /\ \A j \in 1..Len(result.lines) :
             result.lines[j].src /= 0 =>
                StartsWithMarkers(result.lines[j],
                    result.depth + LevelFrom(result.target, result.lines[j].src))

\* a depth-0 render of an item with a child and a grandchild that shows the
\* child with one marker and the grandchild with two
C7_Witness ==
    /\ result.op = "render" /\ ~result.raised /\ result.depth = 0
    /\ \E c \in ObjectsOf(items[result.target].submenu) :
          \E gc \in ObjectsOf(items[c].submenu) :
             /\ \E j \in Positions({c}) : result.lines[j].dashes = 1
             /\ \E j \in Positions({gc}) : result.lines[j].dashes = 2

\* C8: for every rendered item the own lines come first, then the block of
\* each submenu child in list order and one level deeper, and only after all
\* of them the block of each sibling in list order at the item's own depth
C8_OwnSubmenuSiblings ==
    (result.op = "render" /\ ~result.raised) =>
       \A p \in VisibleBlock(result.target) :
          LET sub == items[p].submenu
              sib == items[p].siblings
          IN /\ Before(Positions({p}), Positions(Block(p) \ {p}))
             /\ \A j, k \in 1..Len(sub) :
                   j < k => Before(Positions(Block(sub[j])), Positions(Block(sub[k])))
             /\ \A j, k \in 1..Len(sib) :
                   j < k => Before(Positions(Block(sib[j])), Positions(Block(sib[k])))
             /\ \A j \in 1..Len(sub), k \in 1..Len(sib) :
                   Before(Positions(Block(sub[j])), Positions(Block(sib[k])))
             /\ \A a \in Positions({p}) :
                   /\ \A c \in ObjectsOf(sub) : \A b \in Positions({c}) :
                         result.lines[b].dashes = result.lines[a].dashes + 1
                   /\ \A c \in ObjectsOf(sib) : \A b \in Positions({c}) :
                         result.lines[b].dashes = result.lines[a].dashes

\* a render of an item that has a submenu child and a sibling, both shown
C8_Witness ==
    /\ result.op = "render" /\ ~result.raised
    /\ \E c \in ObjectsOf(items[result.target].submenu) : Positions({c}) /= {}
    /\ \E c \in ObjectsOf(items[result.target].siblings) : Positions({c}) /= {}

(***************************************************************************)
(* Specification of one ShellItem: it is made from a shell string and a    *)
(* cwd, rendered, and run with check_output.                               *)
(***************************************************************************)
ShellAlphabet == {"a", " ", "'"}

\* "echo 'a b' c"
sEcho == <<"e", "c", "h", "o", " ", "'", "a", " ", "b", "'", " ", "c">>

\* the shell strings: every string of the alphabet up to MaxShellLen
\* characters, and the echo command
ShellStrings ==
    {sEcho} \cup UNION {[1..k -> ShellAlphabet] : k \in 1..MaxShellLen}

ShellKws == {[MenuItem(sA) EXCEPT !.shell = s] : s \in ShellStrings}

\* cwd: None, "", "/t" (which exists) and "~/p" (which does not)
ShellCwds == { <<>>, << <<>> >>, << <<"/", "t">> >>, << <<"~", "/", "p">> >> }

\* the process prints nothing, prints " x\n", fails, or does not start
Procs == { Exited(0, <<>>), Exited(0, <<32, 120, 10>>), Exited(1, <<>>), NotFound }

InitShell == InitWith({FileMissing, FileDebug}, {FileEmpty})

NextShell ==
    \/ NewShellItem(ShellKws, ShellCwds, items = <<>>)
    \/ RenderItem
    \/ CheckOutput(Procs)

SpecShell == InitShell /\ [][NextShell]_vars

(***************************************************************************)
(* Properties of ShellItem.                                                *)
(***************************************************************************)
\* C9: check_output hands the process the shell-split tokens of the shell
\* string the item was made from, with the quoting removed, and returns the
\* decoded and stripped output of the process
C9_ArgvIsSplit ==
    (result.op = "check_output" /\ ~result.raised) =>
       /\ result.argv = ShlexSplit(items[result.target].shell_arg).toks
       /\ result.proc.status = 0 => result.value = Strip(Decode(result.proc.out))

\* the shell= and paramN= tokens of a line: those that are no field's token
ShellPart(l) ==
    SelectSeq(l.params, LAMBDA t : t.k \notin {MenuParamKeys[j] : j \in 1..Len(MenuParamKeys)})

\* shell=v1, param1=v2, param2=v3, ...
ShellTokensAre(toks, values) ==
    /\ Len(toks) = Len(values)
    /\ \A j \in 1..Len(toks) :
          /\ toks[j].v = values[j]
          /\ toks[j].k = IF j = 1 THEN "shell" ELSE "param" \o Flat(IntStr(j - 1))

\* the cwd of the item is neither None nor empty
HasCwd(it) == it.cwd /= <<>> /\ it.cwd[1] /= <<>>

\* the claim as stated: the line of a ShellItem whose cwd is set has
\* shell=<command> and no cd, working-directory or && token
C10_RenderWithoutCd ==
    (/\ result.op = "render" /\ ~result.raised
     /\ items[result.target].cls = "ShellItem"
     /\ items[result.target].cwd /= <<>>) =>
       LET toks == ShellPart(result.lines[1])
       IN /\ ShellTokensAre(toks, shell_params(items[result.target]).toks)
          /\ \A j \in 1..Len(toks) : toks[j].v \notin {<<"c", "d">>, <<"&", "&">>}

\* C10: the rendered line of a ShellItem serializes the cd prefix as well:
\* with a non-empty cwd it has shell=cd, param1=<cwd, ~ expanded>, param2=&&
\* and then the command and its arguments from param3 on; with cwd None or
\* empty it has shell=<command>. The argument vector of check_output and the
\* command shown on the DEBUG line never have the prefix
C10_RenderCdPrefix ==
    LET it == items[result.target]
        command == shell_params(it).toks
    IN /\ (result.op = "render" /\ ~result.raised /\ it.cls = "ShellItem") =>
             /\ ShellTokensAre(ShellPart(result.lines[1]),
                   IF HasCwd(it)
                   THEN <<<<"c", "d">>, ExpandUser(it.cwd[1]), <<"&", "&">>>> \o command
                   ELSE command)
             /\ CONFIG[1].DEBUG =>
                   result.lines[2].title
                      = <<"U+2570", "U+2500", " ">> \o JoinChars(<<" ">>, command)
       /\ (result.op = "check_output" /\ ~result.raised) => result.argv = command

\* a render of a ShellItem made with cwd "~/p" whose line starts with shell=cd
\* and param1=/h/p
C10_Witness ==
    /\ result.op = "render" /\ ~result.raised
    /\ items[result.target].cls = "ShellItem"
    /\ items[result.target].cwd = << <<"~", "/", "p">> >>
    /\ Len(result.lines[1].params) >= 4
    /\ result.lines[1].params[1] = [k |-> "shell", v |-> <<"c", "d">>]
    /\ result.lines[1].params[2] = [k |-> "param1", v |-> <<"/", "h", "/", "p">>]

(***************************************************************************)
(* Specification of the Menu: items are made and added with with_items,    *)
(* messages are recorded, and the Menu is rendered.                        *)
(***************************************************************************)
\* a plain item and one that only_if hides
MenuKinds == { MenuItem(sA), [MenuItem(sB) EXCEPT !.only_if = PyFalse] }

MenuMsgs == { <<"a">> }

InitMenu == InitWith({FileMissing, FileDebug}, {FileEmpty})

NextMenu ==
    \/ NewMenuItem(MenuKinds, Len(items) < MaxMenuItems)
    \/ WithSubmenu({"item"})
    \/ WithItems({"item", "list"})
    \/ ConfigError({"Config"}, MenuMsgs)
    \/ ConfigWarn({"Config"}, MenuMsgs)
    \/ MenuRender

SpecMenu == InitMenu /\ [][NextMenu]_vars

\* C1: Menu.render yields the title, the line "---", the lines of every
\* top-level item rendered at depth 0 in the order of adding, and then the
\* lines of the ambient Config's render; with no errors, no warnings and debug
\* off nothing follows the item lines
C1_MenuOrder ==
    (result.op = "Menu.render" /\ ~result.raised) =>
       LET L == result.lines
           n == Cardinality({j \in 1..Len(L) : L[j].src /= 0})
       IN /\ Len(L) >= 2 + n
          /\ L[1] = RawLine(menu.title)
          /\ L[2] = RawLine(sDivider)
          /\ SubSeq(L, 3, 2 + n) = renderAll(menu.items, 0, G).lines
          /\ \A j, k \in 1..Len(menu.items) :
                j < k => Before(Positions(Block(menu.items[j])),
                                Positions(Block(menu.items[k])))
          /\ \A j \in 1..Len(menu.items) : \A a \in Positions({menu.items[j]}) :
                L[a].dashes = 0
          /\ SubSeq(L, 3 + n, Len(L)) = Config_render(CONFIG[1], 0, G)
          /\ (CONFIG[1].errors = <<>> /\ CONFIG[1].warnings = <<>> /\ ~CONFIG[1].DEBUG)
                => Len(L) = 2 + n

\* a render of a Menu with two shown items and a recorded error
C1_Witness ==
    /\ result.op = "Menu.render" /\ ~result.raised
    /\ Len(menu.items) = 2
    /\ \A j \in 1..2 : Positions({menu.items[j]}) /= {}
    /\ CONFIG[1].errors /= <<>>
    /\ Len(result.lines) > 4

(***************************************************************************)
(* Specification of hidden items: trees in which items have a falsy        *)
(* only_if, rendered in DEBUG mode.                                        *)
(***************************************************************************)
\* an item hidden by only_if=False that has an alternate title
GateKinds ==
    { [MenuItem(sA) EXCEPT !.only_if = PyFalse, !.title_alternate = <<sB>>] }

\* a ShellItem that is shown, and one hidden by only_if=[] that has an
\* alternate title
GateShellKws ==
    { [MenuItem(sA) EXCEPT !.shell = <<"a">>],
      [MenuItem(sA) EXCEPT !.shell = <<"a">>, !.only_if = PyList(0),
                           !.title_alternate = <<sB>>] }

InitGate == InitWith({FileDebug}, {FileEmpty})

NextGate ==
    \/ NewMenuItem(GateKinds, Len(items) < MaxItems)
    \/ NewShellItem(GateShellKws, {<<>>}, Len(items) < MaxItems)
    \/ WithSubmenu({"item"})
    \/ WithSiblings({"item"})
    \/ RenderItem

SpecGate == InitGate /\ [][NextGate]_vars

\* C2: an item whose only_if is falsy renders to nothing at any depth, and no
\* line of it, of its submenu or of its siblings is in the output of a render
\* that reaches it; the only lines of temporary items are the DEBUG hook lines
\* of the ShellItems that are shown
C2_FalsyRendersNothing ==
    result.op = "render" =>
       /\ ~Truthy(items[result.target].only_if) =>
             result.lines = <<>> /\ ~result.raised
       /\ \A q \in Block(result.target) :
             ~Truthy(items[q].only_if) => Positions(Block(q)) = {}
       /\ ~result.raised =>
             Cardinality(Positions({0}))
                = Cardinality({q \in VisibleBlock(result.target) :
                                  items[q].cls = "ShellItem"})

\* a depth-1 render of a hidden ShellItem that has an alternate title, a
\* submenu child and a sibling
C2_Witness ==
    /\ result.op = "render" /\ result.depth = 1
    /\ items[result.target].cls = "ShellItem"
    /\ ~Truthy(items[result.target].only_if)
    /\ items[result.target].title_alternate /= <<>>
    /\ items[result.target].submenu /= <<>>
    /\ items[result.target].siblings /= <<>>
    /\ result.lines = <<>>

(***************************************************************************)
(* Specification of the line parameters: one MenuItem made with up to      *)
(* MaxKw keyword arguments (and monospace), then rendered.                 *)
(***************************************************************************)
\* the fields of the claim: every field of menu_params but params
ParamKeys == TernaryFields \cup StrFields \cup IntFields

\* the c-th value (c is 1 or 2) a script passes for field k
FieldValue(k, c) ==
    CASE k \in TernaryFields -> IF c = 1 THEN "True" ELSE "False"
      [] k \in IntFields -> IF c = 1 THEN 1 ELSE 12
      [] k = "font" -> IF c = 1 THEN <<"a">> ELSE sMonospace
      [] OTHER -> IF c = 1 THEN <<"a">> ELSE <<"a", " ", "b">>

RECURSIVE WithKwargs(_, _, _)
\* the item `it` with field k set, then the fields of S but k
WithKwarg(it, k, S, c) ==
    WithKwargs([it EXCEPT ![k] = FieldValue(k, c[k])], S \ {k}, c)

\* MenuItem(title, **kwargs) where kwargs sets the fields of S, c[k] choosing
\* the value of field k
WithKwargs(it, S, c) ==
    IF S = {} THEN it ELSE WithKwarg(it, CHOOSE k \in S : TRUE, S, c)

KwSets == {S \in SUBSET ParamKeys : Cardinality(S) <= MaxKw}

ParamKinds ==
    UNION { { [WithKwargs(MenuItem(sA), S, c) EXCEPT !.monospace = m] :
                 c \in [S -> 1..2], m \in {"False", "True"} } : S \in KwSets }

InitParams == InitWith({FileMissing, FileNoFont}, {FileEmpty})

NextParams ==
    \/ NewMenuItem(ParamKinds, items = <<>>)
    \/ RenderItem

SpecParams == InitParams /\ [][NextParams]_vars

\* the tokens of line l whose key is k
TokensOf(l, k) == {j \in 1..Len(l.params) : l.params[j].k = k}

\* C3: in every line an item yields, a ternary flag has exactly one token,
\* flag=True or flag=False, when the flag is True or False, and none when it is
\* None; a str or int attribute has exactly one token when its value (for font:
\* the value the monospace resolution left) is non-empty or non-zero, and none
\* otherwise
C3_TokenPresence ==
    result.op = "render" =>
       /\ ~result.raised => Positions({result.target}) /= {}
       /\ \A j \in 1..Len(result.lines) :
             LET l == result.lines[j]
                 it == items[l.src]
             IN l.src /= 0 =>
                /\ \A k \in TernaryFields :
                      IF it[k] = "None" THEN TokensOf(l, k) = {}
                      ELSE /\ Cardinality(TokensOf(l, k)) = 1
                           /\ \A t \in TokensOf(l, k) :
                                 l.params[t].v =
                                    IF it[k] = "True" THEN <<"T", "r", "u", "e">>
                                    ELSE <<"F", "a", "l", "s", "e">>
                /\ \A k \in StrFields :
                      Cardinality(TokensOf(l, k)) = IF it[k] /= <<>> THEN 1 ELSE 0
                /\ \A k \in IntFields :
                      Cardinality(TokensOf(l, k)) = IF it[k] /= 0 THEN 1 ELSE 0

\* a rendered item whose disabled flag is False and whose key is set, the
\* other fields being unset, empty or zero
C3_Witness ==
    /\ result.op = "render" /\ ~result.raised
    /\ items[result.target].disabled = "False"
    /\ items[result.target].refresh = "None"
    /\ items[result.target].key /= <<>>
    /\ items[result.target].href = <<>>
    /\ items[result.target].size = 0
    /\ \E j \in Positions({result.target}) :
          /\ TokensOf(result.lines[j], "disabled") /= {}
          /\ TokensOf(result.lines[j], "key") /= {}
          /\ Len(result.lines[j].params) = 2

(***************************************************************************)
(* Specification of repeated renders: trees of items that ask for the      *)
(* monospace font, rendered again and again.                               *)
(***************************************************************************)
MonoKinds == {MonoItem(sA), [MenuItem(sB) EXCEPT !.font = sMonospace], Divider}

InitMono == InitWith({FileMissing}, {FileEmpty})

NextMono ==
    \/ NewMenuItem(MonoKinds, Len(items) < MaxMenuItems)
    \/ WithSubmenu({"item"})
    \/ WithSiblings({"item"})
    \/ RenderAgain

SpecMono == InitMono /\ [][NextMono]_vars

\* C4: a render that directly follows a render of the same item at the same
\* depth yields the same lines (and raises alike)
C4_RenderTwiceSame ==
    [][ (/\ result.op = "render" /\ result'.op = "render"
         /\ result'.target = result.target /\ result'.depth = result.depth)
        => (result'.lines = result.lines /\ result'.raised = result.raised) ]_vars

\* the second of two renders of a MonoItem with a submenu, whose line carries
\* the font the first render resolved
C4_Witness ==
    /\ result.op = "render" /\ result.again
    /\ items[result.target].cls = "MonoItem"
    /\ items[result.target].submenu /= <<>>
    /\ \E j \in Positions({result.target}) :
          \E t \in TokensOf(result.lines[j], "font") :
             result.lines[j].params[t].v = <<"'">> \o sAndaleMono \o <<"'">>

(***************************************************************************)
(* Specification of working directories: ShellItems are made with a cwd,   *)
(* added to the Menu, and the Menu is rendered.                            *)
(***************************************************************************)
CwdKws == { [MenuItem(sA) EXCEPT !.shell = <<"a">>] }

InitCwd == InitWith({FileMissing, FileDebug}, {FileEmpty})

NextCwd ==
    \/ NewShellItem(CwdKws, ShellCwds, Len(items) < MaxMenuItems)
    \/ WithItems({"item", "list"})
    \/ MenuRender

SpecCwd == InitCwd /\ [][NextCwd]_vars

\* the ShellItems whose cwd is set and does not exist
MissingCwd ==
    {i \in 1..Len(items) : /\ items[i].cls = "ShellItem" /\ HasCwd(items[i])
                           /\ items[i].cwd[1] \notin ExistingDirs}

\* C11: once a ShellItem has been made with a cwd that does not exist, the
\* Config holds an error message, and a Menu.render shows a message line in
\* its errors section
C11_MissingCwdReported ==
    MissingCwd /= {} =>
       /\ CONFIG /= <<>> /\ CONFIG[1].errors /= <<>>
       /\ (result.op = "Menu.render" /\ ~result.raised) =>
             \E j \in 1..Len(result.lines) :
                IsMessageLine(result.lines[j], GlyphError, 0)

(***************************************************************************)
(* Specification of the command tokens: one MenuItem made with a shell     *)
(* string and params, then rendered.                                       *)
(***************************************************************************)
\* params: (), ("x",) and ("x y", "z")
LineParams == { <<>>, << <<"x">> >>, << <<"x", " ", "y">>, <<"z">> >> }

LineKinds ==
    { [kw EXCEPT !.params = p] : kw \in ShellKws \cup {MenuItem(sA)}, p \in LineParams }

InitLine == InitWith({FileMissing}, {FileEmpty})

NextLine ==
    \/ NewMenuItem(LineKinds, items = <<>>)
    \/ RenderItem

SpecLine == InitLine /\ [][NextLine]_vars

\* C12: the line of a rendered MenuItem whose shell is non-empty has shell=
\* with the first token of the shell string (shell-quoted), then param1,
\* param2, ... for the remaining tokens of the shell string and then the
\* entries of params, in order; with an empty shell it has no shell= and no
\* paramN= token
C12_ShellThenParams ==
    (result.op = "render" /\ items[result.target].cls = "MenuItem") =>
       /\ ~result.raised
       /\ Len(result.lines) = 1
       /\ LET it == items[result.target]
          IN ShellTokensAre(ShellPart(result.lines[1]),
                IF it.shell = <<>> THEN <<>>
                ELSE QuoteAll(ShlexSplit(it.shell).toks) \o it.params)

(***************************************************************************)
(* Specification of alternate titles: items made with title_alternate      *)
(* None, "" or "B", put into submenus and rendered.                        *)
(***************************************************************************)
AltKinds ==
    { [k EXCEPT !.title_alternate = t] :
         k \in {MenuItem(sA), MonoItem(sA), Divider},
         t \in { <<>>, << <<>> >>, <<sB>> } }

InitAlt == InitWith({FileMissing}, {FileEmpty})

NextAlt ==
    \/ NewMenuItem(AltKinds, Len(items) < MaxMenuItems)
    \/ WithSubmenu({"item"})
    \/ RenderItem

SpecAlt == InitAlt /\ [][NextAlt]_vars

\* the lines of object q are `n` consecutive lines with its prefix and its
\* parameters: the first shows the title, the second the alternate title
OwnLinesAre(q, n) ==
    /\ Cardinality(Positions({q})) = n
    /\ \A a \in Positions({q}) :
          IF \A b \in Positions({q}) : a <= b
          THEN result.lines[a].title = items[q].title
          ELSE /\ a - 1 \in Positions({q})
               /\ result.lines[a].title = items[q].title_alternate[1]
               /\ result.lines[a].dashes = result.lines[a - 1].dashes
               /\ result.lines[a].sp = result.lines[a - 1].sp
               /\ result.lines[a].params = result.lines[a - 1].params

\* the claim as stated: two title lines whenever title_alternate is set (is
\* not None), one when it is unset
C13_TwoLinesWhenSet ==
    (result.op = "render" /\ ~result.raised) =>
       \A q \in VisibleBlock(result.target) :
          OwnLinesAre(q, IF items[q].title_alternate /= <<>> THEN 2 ELSE 1)

\* C13: an item whose only_if is truthy yields two title lines when its
\* title_alternate is a non-empty str, the second right after the first with
\* the same depth prefix and the same parameters but the alternate title; it
\* yields one title line when title_alternate is None or the empty str
C13_TwoLinesWhenNonEmpty ==
    (result.op = "render" /\ ~result.raised) =>
       \A q \in VisibleBlock(result.target) :
          OwnLinesAre(q, IF items[q].title_alternate \notin { <<>>, << <<>> >> }
                         THEN 2 ELSE 1)

\* a depth-1 render of a MonoItem with alternate title "B" and a submenu child
\* whose alternate title is "": two lines with a font token, then one line
C13_Witness ==
    /\ result.op = "render" /\ ~result.raised /\ result.depth = 1
    /\ items[result.target].cls = "MonoItem"
    /\ items[result.target].title_alternate = <<sB>>
    /\ Positions({result.target}) = {1, 2}
    /\ result.lines[2].title = sB
    /\ TokensOf(result.lines[2], "font") /= {}
    /\ \E c \in ObjectsOf(items[result.target].submenu) :
          /\ items[c].title_alternate = << <<>> >>
          /\ Positions({c}) = {3}

(***************************************************************************)
(* The layout of the rendered diagnostics.                                 *)
(***************************************************************************)
\* how many lines a category of messages takes
CategorySize(messages) == IF messages = <<>> THEN 0 ELSE Len(messages) + 2

\* from line off + 1 on, L has the lines of a category that holds messages: a
\* divider, the header with its color, and one line for each message
CategoryAt(L, off, title, color, glyph, messages, depth) ==
    messages /= <<>> =>
       /\ Len(L) >= off + Len(messages) + 2
       /\ L[off + 1].title = sDivider /\ L[off + 1].params = <<>>
       /\ L[off + 1].dashes = depth
       /\ L[off + 2].title = title
       /\ L[off + 2].params = <<[k |-> "color", v |-> color]>>
       /\ \A j \in 1..Len(messages) : IsMessageLine(L[off + 2 + j], glyph, depth)
       /\ \A m \in Range(messages) :
             Cardinality({j \in 1..Len(messages) :
                             MessageOf(L[off + 2 + j], glyph, depth) = m}) = 1

\* C14: Config.render yields the errors category and then the warnings
\* category: nothing for a category without messages, otherwise a divider
\* line, the header line (errors with color=red, warnings with color=yellow)
\* and exactly one line per message; only the DEBUG lines follow, so with both
\* categories empty and DEBUG off it yields nothing
C14_CategoryLayout ==
    result.op = "Config.render" =>
       LET L == result.lines
           c == CONFIG[1]
       IN /\ CategoryAt(L, 0, sErrors, <<"r", "e", "d">>, GlyphError, c.errors,
                        result.depth)
          /\ CategoryAt(L, CategorySize(c.errors), sWarnings,
                        <<"y", "e", "l", "l", "o", "w">>, GlyphWarning, c.warnings,
                        result.depth)
          /\ Len(L) >= CategorySize(c.errors) + CategorySize(c.warnings)
          /\ ~c.DEBUG => Len(L) = CategorySize(c.errors) + CategorySize(c.warnings)
          /\ \A j \in 1..Len(L) :
                /\ L[j].title = sErrors => c.errors /= <<>>
                /\ L[j].title = sWarnings => c.warnings /= <<>>
                /\ j > CategorySize(c.errors) + CategorySize(c.warnings)
                      => L[j].title /= sDivider

\* a depth-1 render of a Config that holds two errors and one warning
C14_Witness ==
    /\ result.op = "Config.render" /\ result.depth = 1
    /\ CONFIG /= <<>>
    /\ Len(CONFIG[1].errors) = 2 /\ Len(CONFIG[1].warnings) = 1
    /\ ~CONFIG[1].DEBUG
    /\ Len(result.lines) = 7

(***************************************************************************)
(* The failure policy of check_output.                                     *)
(***************************************************************************)
\* the Config is the one there was, or the one a first get_config() has
\* loaded, which holds no message yet
ConfigKept ==
    \/ CONFIG' = CONFIG
    \/ /\ CONFIG = <<>> /\ CONFIG' /= <<>>
       /\ CONFIG'[1] = from_config_file("Config", varsFile["Config"])
       /\ CONFIG'[1].errors = <<>> /\ CONFIG'[1].warnings = <<>>

\* C15: when the process that check_output ran exits with a non-zero status,
\* the call raises if check is true and returns "" if check is false, and it
\* changes neither the items nor the Config
C15_FailurePolicy ==
    [][ (/\ result'.op = "check_output" /\ result'.started
         /\ result'.proc.status /= 0)
        => /\ result'.raised = result'.check
           /\ ~result'.check => result'.value = <<>>
           /\ items' = items
           /\ ConfigKept ]_vars

\* a check_output(check=False) whose process failed and which returned ""
C15_Witness ==
    /\ result.op = "check_output" /\ result.started
    /\ result.proc.status /= 0
    /\ ~result.check /\ ~result.raised /\ result.value = <<>>

(***************************************************************************)
(* Specification of the path settings: the vars file sets VAR_CACHE_DIR or *)
(* not, the Config is loaded, and messages are recorded and rendered.      *)
(***************************************************************************)
\* a vars file that sets VAR_CACHE_DIR to the path p
FileCache(p) == <<[EmptyDict EXCEPT !.VAR_CACHE_DIR = <<JsonStr(p)>>]>>

\* "~/p", which does not exist, and "/t", which does
CachePaths == { <<"~", "/", "p">>, <<"/", "t">> }

InitPaths ==
    InitWith({FileMissing} \cup {FileCache(p) : p \in CachePaths}, {FileEmpty})

NextPaths ==
    \/ ConfigError({"Config"}, Msgs)
    \/ ConfigWarn({"Config"}, Msgs)
    \/ ConfigRender

SpecPaths == InitPaths /\ [][NextPaths]_vars

\* the str s ends with the str p
EndsWith(s, p) == Len(s) >= Len(p) /\ SubSeq(s, Len(s) - Len(p) + 1, Len(s)) = p

\* C16: once the Config is loaded, its path field CACHE_DIR is user-home
\* expanded, and if that path does not exist the Config's errors hold a
\* message about it
C16_MissingPathRecorded ==
    CONFIG /= <<>> =>
       /\ CONFIG[1].CACHE_DIR[1] /= "~"
       /\ CONFIG[1].CACHE_DIR \notin ExistingDirs =>
             \E j \in 1..Len(CONFIG[1].errors) :
                EndsWith(CONFIG[1].errors[j], CONFIG[1].CACHE_DIR)

(***************************************************************************)
(* The title line.                                                         *)
(***************************************************************************)
\* the text of the first line is n two-dash markers, a space if spaced, and
\* the title, and then nothing or the parameters
TitleLineIs(title, n, spaced) ==
    LET text == LineText(result.lines[1])
        want == Dashes(n) \o (IF spaced THEN <<" ">> ELSE <<>>) \o title
    IN /\ Len(text) >= Len(want)
       /\ SubSeq(text, 1, Len(want)) = want
       /\ Len(text) > Len(want) =>
             SubSeq(text, Len(want) + 1, Len(want) + 3) = <<" ", "|", " ">>

\* the claim as stated: the space is left out only for a divider at depth 0
C17_SpaceUnlessDividerAtZero ==
    (result.op = "render" /\ ~result.raised) =>
       TitleLineIs(items[result.target].title, result.depth,
                   ~(items[result.target].title = sDivider /\ result.depth = 0))

\* C17: the title line of an item rendered at depth n is n two-dash markers,
\* then a single space unless n is 0 or the item is a divider, then the title
C17_SpaceUnlessDividerOrZero ==
    (result.op = "render" /\ ~result.raised) =>
       TitleLineIs(items[result.target].title, result.depth,
                   items[result.target].title /= sDivider /\ result.depth /= 0)

\* a Divider rendered at depth 1, whose line is "-----"
C17_Witness ==
    /\ result.op = "render" /\ ~result.raised /\ result.depth = 1
    /\ items[result.target].cls = "Divider"
    /\ LineText(result.lines[1]) = <<"-", "-", "-", "-", "-">>

(***************************************************************************)
(* Specification of the effects of render: trees of items that ask for the *)
(* monospace font, with ShellItems, recorded errors and DEBUG on or off.   *)
(***************************************************************************)
FrameShellKws == { [MenuItem(sA) EXCEPT !.shell = <<"a">>, !.monospace = "True"] }

InitFrame == InitWith({FileMissing, FileDebug}, {FileEmpty})

NextFrame ==
    \/ NewMenuItem(MonoKinds, Len(items) < MaxMenuItems)
    \/ NewShellItem(FrameShellKws, {<<>>}, Len(items) < MaxMenuItems)
    \/ WithSubmenu({"item"})
    \/ WithSiblings({"item"})
    \/ ConfigError({"Config"}, MenuMsgs)
    \/ RenderItem

SpecFrame == InitFrame /\ [][NextFrame]_vars

\* the errors and warnings the Config c holds (none while there is no Config)
MessagesOf(c) == IF c = <<>> THEN << <<>>, <<>> >> ELSE <<c[1].errors, c[1].warnings>>

\* C18: a render changes no attribute of any item but font, so the submenu and
\* siblings lists stay as they are; font changes only on an item whose font
\* was "monospace" or whose monospace flag is true; and the Config's errors
\* and warnings stay as they are
C18_RenderChangesOnlyFont ==
    [][ result'.op = "render" =>
           /\ Len(items') = Len(items)
           /\ \A i \in 1..Len(items) :
                 /\ [items'[i] EXCEPT !.font = items[i].font] = items[i]
                 /\ items'[i].font /= items[i].font =>
                       /\ items[i].font = sMonospace \/ items[i].monospace = "True"
                       /\ i \in Block(result'.target)
           /\ menu' = menu
           /\ MessagesOf(CONFIG') = MessagesOf(CONFIG) ]_vars

\* after a render of a MonoItem whose submenu holds a ShellItem, with DEBUG on
\* and an error recorded: both fonts have been resolved
C18_Witness ==
    /\ result.op = "render" /\ ~result.raised
    /\ items[result.target].cls = "MonoItem"
    /\ items[result.target].font = sAndaleMono
    /\ \E c \in ObjectsOf(items[result.target].submenu) :
          items[c].cls = "ShellItem" /\ items[c].font = sAndaleMono
    /\ CONFIG[1].DEBUG /\ CONFIG[1].errors /= <<>>

(***************************************************************************)
(* Specification of the ambient Config: get_config is called with Config   *)
(* or a subclass of it, messages are recorded on what it returns, and the  *)
(* Menu is rendered.                                                       *)
(***************************************************************************)
InitAmbient == InitWith({FileMissing}, {FileEmpty})

NextAmbient ==
    \/ ConfigError(Classes, Msgs)
    \/ ConfigWarn(Classes, Msgs)
    \/ MenuRender

SpecAmbient == InitAmbient /\ [][NextAmbient]_vars

\* the messages are on lines of the output
Shown(messages, glyph) ==
    \A m \in Range(messages) :
       \E j \in 1..Len(result'.lines) :
          /\ IsMessageLine(result'.lines[j], glyph, 0)
          /\ MessageOf(result'.lines[j], glyph, 0) = m

\* C19: whatever get_config, error, warn or Menu.render call comes next, the
\* ambient Config afterwards still holds every message recorded so far, and a
\* Menu.render shows them all
C19_MessagesKept ==
    [][ CONFIG /= <<>> =>
           /\ CONFIG' /= <<>>
           /\ Range(CONFIG[1].errors) \subseteq Range(CONFIG'[1].errors)
           /\ Range(CONFIG[1].warnings) \subseteq Range(CONFIG'[1].warnings)
           /\ result'.op = "Menu.render" =>
                 /\ Shown(CONFIG[1].errors, GlyphError)
                 /\ Shown(CONFIG[1].warnings, GlyphWarning) ]_vars

(***************************************************************************)
(* Specification of the "---" shorthand: items and the str "---" are       *)
(* passed to with_items, with_submenu and with_siblings, and the result is *)
(* rendered.                                                               *)
(***************************************************************************)
InitLiteral == InitWith({FileMissing}, {FileEmpty})

NextLiteral ==
    \/ NewMenuItem({MenuItem(sA)}, Len(items) < MaxMenuItems)
    \/ WithSubmenu({"item", "---"})
    \/ WithSiblings({"item", "---"})
    \/ WithItems({"item", "---"})
    \/ RenderItem
    \/ MenuRender

SpecLiteral == InitLiteral /\ [][NextLiteral]_vars

\* the list `after` is the list `before` with the newest object appended, and
\* that object is a Divider
DividerAppended(before, after) ==
    /\ after = Append(before, Len(items'))
    /\ items'[Len(items')].cls = "Divider"

\* C20: a with_* call that is passed "---" (the one way such a call makes a
\* new object) appends one Divider to the target list and nothing else, and a
\* render of a tree built that way does not fail and shows one "---" line for
\* each Divider it reaches
C20_LiteralAppendsDivider ==
    [][ /\ (result'.op = "with_items" /\ Len(items') > Len(items)) =>
              DividerAppended(menu.items, menu'.items)
        /\ (result'.op = "with_submenu" /\ Len(items') > Len(items)) =>
              DividerAppended(items[result'.target].submenu,
                              items'[result'.target].submenu)
        /\ (result'.op = "with_siblings" /\ Len(items') > Len(items)) =>
              DividerAppended(items[result'.target].siblings,
                              items'[result'.target].siblings)
        /\ result'.op \in {"render", "Menu.render"} =>
              /\ ~result'.raised
              /\ \A q \in 1..Len(items) :
                    Cardinality({j \in 1..Len(result'.lines) :
                                    /\ result'.lines[j].src = q
                                    /\ result'.lines[j].title = sDivider}) <= 1 ]_vars

(***************************************************************************)
(* Saving and reloading a Config (config.py).                              *)
(***************************************************************************)
\* c.as_config_dict(): every configured field under its VAR_ key, as str(value)
as_config_dict(c) ==
    [ VAR_DEBUG |-> <<JsonStr(TernaryStr(IF c.DEBUG THEN "True" ELSE "False"))>>,
      VAR_MONO_FONT |-> <<JsonStr(c.MONO_FONT)>>,
      VAR_CACHE_DIR |-> <<JsonStr(c.CACHE_DIR)>> ]

\* c.save(): the dict is written to the vars file of the object's class
Config_save(c, g) == [g EXCEPT !.varsFile[c.cls] = <<as_config_dict(c)>>]

\* get_config(cls).save()
ConfigSave(classes) ==
    \E cls \in classes :
       \E gc \in {get_config(G, cls)} :
          /\ SetG(Config_save(gc.g.CONFIG[1], gc.g))
          /\ result' = Returned("save", 0)
          /\ UNCHANGED <<menu, xCONFIG>>

\* c = get_config(cls); type(c).from_config_dict(c.as_config_dict())
ConfigReload(classes) ==
    \E cls \in classes :
       \E gc \in {get_config(G, cls)} :
          /\ SetG(gc.g)
          /\ result' = [Returned("reload", 0) EXCEPT
                           !.value = <<from_config_dict(gc.g.CONFIG[1].cls,
                                           as_config_dict(gc.g.CONFIG[1]))>>]
          /\ UNCHANGED <<menu, xCONFIG>>

\* a vars file that sets a font name and a cache directory under the home
FileFull ==
    <<[EmptyDict EXCEPT !.VAR_MONO_FONT = <<JsonStr(sA)>>,
                        !.VAR_CACHE_DIR = <<JsonStr(<<"~", "/", "p">>)>>]>>

InitReload == InitWith({FileMissing, FileDebug, FileNoFont, FileFull}, {FileEmpty})

NextReload ==
    \/ ConfigError(Classes, MenuMsgs)
    \/ ConfigWarn(Classes, MenuMsgs)
    \/ ConfigSave(Classes)
    \/ ConfigReload(Classes)

SpecReload == InitReload /\ [][NextReload]_vars

\* C21: the Config made by from_config_dict from the as_config_dict of the
\* ambient Config has the same DEBUG, MONO_FONT and CACHE_DIR as that Config;
\* in particular a DEBUG that is false stays false
C21_RoundTrip ==
    result.op = "reload" =>
       /\ result.value[1].DEBUG = CONFIG[1].DEBUG
       /\ result.value[1].MONO_FONT = CONFIG[1].MONO_FONT
       /\ result.value[1].CACHE_DIR = CONFIG[1].CACHE_DIR

\* the fields other than DEBUG do come back as they were
C21_OtherFieldsKept ==
    result.op = "reload" =>
       /\ result.value[1].MONO_FONT = CONFIG[1].MONO_FONT
       /\ result.value[1].CACHE_DIR = CONFIG[1].CACHE_DIR

(***************************************************************************)
(* Specification of the serialized attributes: one MenuItem or ShellItem,  *)
(* with or without a shell command and params entries, made and rendered.  *)
(***************************************************************************)
InitSerial == InitWith({FileMissing}, {FileEmpty})

NextSerial ==
    \/ NewMenuItem(LineKinds, items = <<>>)
    \/ NewShellItem(ShellKws, {<<>>}, items = <<>>)
    \/ RenderItem

SpecSerial == InitSerial /\ [][NextSerial]_vars

\* C22: no line a MenuItem or ShellItem yields has a token whose key is
\* params, whatever the item's shell and params are: the entries of params
\* show only as paramN= tokens
C22_NoParamsToken ==
    result.op = "render" =>
       \A j \in 1..Len(result.lines) : TokensOf(result.lines[j], "params") = {}

\* an item whose params is empty yields no params= token
C22_NoneWhenEmpty ==
    result.op = "render" =>
       \A j \in 1..Len(result.lines) :
          LET l == result.lines[j]
          IN (l.src /= 0 /\ items[l.src].params = <<>>) => TokensOf(l, "params") = {}

====
